---- MODULE Spec2Model ----
(***************************************************************************)
(* cargo-interactive-update: dependency discovery (src/cargo.rs), registry *)
(* lookup (src/api.rs), bounded-concurrency retrieval of the outdated      *)
(* dependencies, the selection state (src/cli.rs) and the manifest writer  *)
(* (src/dependency.rs), as a state machine.                                *)
(*                                                                         *)
(* Strings that the program parses are modelled by what the parser reads   *)
(* in them: a version (requirement) string is a record [op, v] where op is *)
(* the comparator prefix as written ("" for a bare string) and v the       *)
(* version triple.  Crate names and member paths are strings; the order of *)
(* names is the lexicographic order of the strings in CrateNames.          *)
(*                                                                         *)
(* A Cargo.toml is a record: sections (kind -> its entries in file order), *)
(* items (what the file holds under the key of each section and under      *)
(* workspace.members: "missing", a "table" / "array", or a "value" of      *)
(* another type), members (the elements of workspace.members) and parses   *)
(* (is the content TOML).  A path outside DOMAIN manifests has no file.    *)
(***************************************************************************)
EXTENDS Integers, Sequences, FiniteSets, TLC

\* ------------------------------------------------------------------ bounds
\* largest major / minor / patch number of a version
MaxVer == 2
\* declared dependencies in the whole workspace, in the pipeline's workspaces
MaxDeps == 2
\* declared dependencies of the root / of a member, in the workspaces that
\* exercise the concurrency cap
MaxRootDeps == 6
MaxMemberDeps == 1
\* packages in Cargo.lock, in the lockfiles holding several versions of a crate
MaxLock == 3
\* elements of the member list of the root, in the workspaces that exercise
\* the discovery of the members
MaxMembers == 2
\* records in the "versions" array of a registry body
MaxRecords == 2
\* outdated records in the list of the selection UI, in the workspaces that
\* exercise the keys
MaxUiDeps == 4

\* ------------------------------------------------------- program constants
\* `if *count < 5` in retrieve_outdated_dependencies
Cap == 5

\* ------------------------------------------------------------ plain values
None == [tag |-> "None"]
Some(x) == [tag |-> "Some", val |-> x]

\* Option<String> fields that hold no string
NoPackage == "<no package>"
NoPath == "<no workspace path>"
NoVersion == [op |-> "<no version>", v |-> <<0, 0, 0>>]

RootPath == "."
MemberPaths == {"a", "b"}

\* an element of a member list that is not a string (member.as_str() is None)
NotAString == "<not a string>"

\* crate names, in lexicographic order
CrateNames == <<"base64", "serde">>
NameSet == {CrateNames[i] : i \in 1..Len(CrateNames)}
NameRank(n) == CHOOSE i \in 1..Len(CrateNames) : CrateNames[i] = n

\* DependencyKind, in declaration order (the order derive(Ord) compares by)
ordered == <<"Normal", "Dev", "Build", "Workspace">>
Kinds == {ordered[i] : i \in 1..Len(ordered)}
KindRank(k) == CHOOSE i \in 1..Len(ordered) : ordered[i] = k

\* --------------------------------------------------------------- semver
Versions == (0..MaxVer) \X (0..MaxVer) \X (0..MaxVer)

VerLess(a, b) ==
    \/ a[1] < b[1]
    \/ a[1] = b[1] /\ a[2] < b[2]
    \/ a[1] = b[1] /\ a[2] = b[2] /\ a[3] < b[3]

VerLeq(a, b) == a = b \/ VerLess(a, b)

\* comparator prefixes a requirement string may be written with
ReqOps == {"", "^", "=", ">=", "~"}

\* a parse that reads a bare version as an exact requirement
VersionReqParseExact(s) == [op |-> IF s.op = "" THEN "=" ELSE s.op, v |-> s.v]

\* semver::VersionReq::parse: a bare version is a caret requirement
VersionReqParse(s) == [op |-> IF s.op = "" THEN "^" ELSE s.op, v |-> s.v]

\* semver::Version::to_string and the string of a version as the registry
\* and the lockfile hold it: bare, no comparator
VersionToString(v) == [op |-> "", v |-> v]

\* a string that is neither a version nor a requirement, such as "v1.0.0"
InvalidOp == "v"
NotSemver(v) == [op |-> InvalidOp, v |-> v]

\* semver::Version::parse: only a bare version is a version
VersionParseOk(s) == s.op = ""
VersionParse(s) == s.v

\* semver::VersionReq::matches for one comparator over a full version
ReqMatches(req, v) ==
    CASE req.op = "=" -> v = req.v
      [] req.op = ">=" -> VerLeq(req.v, v)
      [] req.op = "~" -> v[1] = req.v[1] /\ v[2] = req.v[2] /\ req.v[3] <= v[3]
      [] req.op = "^" ->
            IF req.v[1] > 0 THEN v[1] = req.v[1] /\ VerLeq(req.v, v)
            ELSE IF req.v[2] > 0
                 THEN v[1] = 0 /\ v[2] = req.v[2] /\ req.v[3] <= v[3]
                 ELSE v = req.v
      [] OTHER -> FALSE

\* ------------------------------------------------------------- lockfile
\* cargo_lock::Lockfile::packages: [name, version] records sorted by name

\* packages.binary_search_by_key(&package_name, ..): Ok(i) for some index
\* holding the name (any one of them when several do), Err otherwise (0)
BinarySearchAnchors(packages, package_name) ==
    IF \E i \in 1..Len(packages) : packages[i].name = package_name
    THEN {i \in 1..Len(packages) : packages[i].name = package_name}
    ELSE {0}

Min(S) == CHOOSE x \in S : \A y \in S : x <= y
Max(S) == CHOOSE x \in S : \A y \in S : y <= x

\* a resolver that tries the anchor and the entries after it only
FindMatchingPackageForward(packages, package_name, req, i) ==
    LET n == Len(packages)
        forward == {j \in (i + 1)..n :
                      /\ \A k \in (i + 1)..j : packages[k].name = package_name
                      /\ ReqMatches(req, packages[j].version)}
    IN  IF i = 0 THEN 0
        ELSE IF ReqMatches(req, packages[i].version) THEN i
        ELSE IF forward # {} THEN Min(forward)
        ELSE 0

\* a resolver that scans the entries before the anchor first
FindMatchingPackageBackwardFirst(packages, package_name, req, i) ==
    LET n == Len(packages)
        forward == {j \in (i + 1)..n :
                      /\ \A k \in (i + 1)..j : packages[k].name = package_name
                      /\ ReqMatches(req, packages[j].version)}
        backward == {j \in 1..(i - 1) :
                      /\ \A k \in j..(i - 1) : packages[k].name = package_name
                      /\ ReqMatches(req, packages[j].version)}
    IN  IF i = 0 THEN 0
        ELSE IF ReqMatches(req, packages[i].version) THEN i
        ELSE IF backward # {} THEN Max(backward)
        ELSE IF forward # {} THEN Min(forward)
        ELSE 0

\* find_matching_package, from the anchor i the binary search returned:
\* the index of the package returned, 0 for a panic
FindMatchingPackage(packages, package_name, req, i) ==
    LET n == Len(packages)
        forward == {j \in (i + 1)..n :
                      /\ \A k \in (i + 1)..j : packages[k].name = package_name
                      /\ ReqMatches(req, packages[j].version)}
        backward == {j \in 1..(i - 1) :
                      /\ \A k \in j..(i - 1) : packages[k].name = package_name
                      /\ ReqMatches(req, packages[j].version)}
    IN  IF i = 0 THEN 0
        ELSE IF ReqMatches(req, packages[i].version) THEN i
        ELSE IF forward # {} THEN Min(forward)
        ELSE IF backward # {} THEN Max(backward)
        ELSE 0

\* ---------------------------------------------- manifests and extraction
\* A manifest entry is [name, shape, version, package]: shape "string" is a
\* bare string, "inline" an inline table, "table" a nested table, "other"
\* any other value; version is the version (requirement) string, NoVersion
\* for a table without a string version field.
VersionReqParseOk(s) == s.op \in ReqOps

\* a match that takes every table, with a version or not
ExtractableAnyTable(item) == item.shape \in {"string", "inline", "table"}

\* the match of extract_dependencies_from_sections: does the entry yield
\* (version_req, package), or is it skipped
Extractable(item) ==
    \/ item.shape = "string"
    \/ item.shape \in {"inline", "table"} /\ item.version # NoVersion

PackageOf(item) ==
    IF item.shape = "string" THEN NoPackage ELSE item.package

\* a lookup by the manifest key, whatever the package
LookupByKey(name, package) == name

\* package.as_deref().unwrap_or(name)
LookupName(name, package) == IF package = NoPackage THEN name ELSE package

\* the locked package of one extractable entry (0: panic)
LockedIndex(item, packages, anchor) ==
    LET package_name == LookupName(item.name, PackageOf(item))
    IN  IF ~VersionReqParseOk(item.version) THEN 0
        ELSE FindMatchingPackage(packages, package_name,
                                 VersionReqParse(item.version),
                                 anchor[package_name])

\* the CargoDependency of an entry: its version is the locked version
CargoDependencyOf(item, kind, packages, anchor) ==
    [name |-> item.name,
     package |-> PackageOf(item),
     version |-> VersionToString(
                    packages[LockedIndex(item, packages, anchor)].version),
     kind |-> kind]

\* cargo_toml.get(<the key of the section>): item is "missing" for None,
\* "table" for a table-like item and "value" for any other item, entries
\* are the entries of the table
SectionItem(cargo_toml, kind) ==
    [item |-> cargo_toml.items[kind], entries |-> cargo_toml.sections[kind]]

\* extract_dependencies_from_sections: [panic, deps]; a section that is
\* missing or not table-like returns vec![] at once
ExtractDependenciesFromSections(dependencies_section, kind, packages, anchor) ==
    LET entries == IF dependencies_section.item = "table"
                   THEN SelectSeq(dependencies_section.entries, Extractable)
                   ELSE << >>
    IN  [panic |-> \E i \in 1..Len(entries) :
                       LockedIndex(entries[i], packages, anchor) = 0,
         deps |-> IF \E i \in 1..Len(entries) :
                        LockedIndex(entries[i], packages, anchor) = 0
                  THEN << >>
                  ELSE [i \in 1..Len(entries) |->
                          CargoDependencyOf(entries[i], kind, packages, anchor)]]

\* get_cargo_dependencies: the four sections, chained in this order
GetCargoDependencies(cargo_toml, packages, anchor) ==
    LET sec(k) == ExtractDependenciesFromSections(
                      SectionItem(cargo_toml, k), k, packages, anchor)
    IN  [panic |-> \E k \in Kinds : sec(k).panic,
         deps |-> sec("Normal").deps \o sec("Dev").deps
                  \o sec("Build").deps \o sec("Workspace").deps]

\* a walk that takes every element of the member list but "."
WorkspaceMemberKeysOfAnyType(cargo_toml) ==
    IF cargo_toml.items["Members"] # "array" THEN {}
    ELSE {cargo_toml.members[i] : i \in 1..Len(cargo_toml.members)} \ {RootPath}

\* get_workspace_members: the keys inserted into the HashMap; none when
\* workspace.members is missing or not an array, and an element that is
\* not a string or is "." is passed over
WorkspaceMemberKeys(cargo_toml) ==
    IF cargo_toml.items["Members"] # "array" THEN {}
    ELSE {cargo_toml.members[i] : i \in 1..Len(cargo_toml.members)}
             \ {NotAString, RootPath}

\* ------------------------------------------------------------- registry
\* what crates.io answers for a crate: the latest stable version, a
\* max_stable_version that is not a version, a body without
\* max_stable_version, or no answer at all
Latest(v) == [tag |-> "Latest", v |-> v]
Garbled(v) == [tag |-> "Garbled", v |-> v]
Missing == [tag |-> "Missing", v |-> <<0, 0, 0>>]
Unreachable == [tag |-> "Unreachable", v |-> <<0, 0, 0>>]

\* api::get_latest_version: Err, Ok(None) or Ok(Some(response))
GetLatestVersion(dependency, reg) ==
    LET package == LookupName(dependency.name, dependency.package)
        answer == reg[package]
    IN  CASE answer.tag = "Unreachable" -> [tag |-> "Err"]
          [] answer.tag = "Missing" -> [tag |-> "Ok", val |-> None]
          [] answer.tag = "Garbled" ->
                [tag |-> "Ok",
                 val |-> Some([latest_version |-> NotSemver(answer.v)])]
          [] OTHER -> [tag |-> "Ok",
                       val |-> Some([latest_version |->
                                        VersionToString(answer.v)])]

Panic == [tag |-> "Panic"]

\* CargoDependency::get_latest_version_wrapper: Panic, None or Some(record)
GetLatestVersionWrapper(dependency, workspace_member, workspace_path, reg) ==
    LET response == GetLatestVersion(dependency, reg)
    IN  IF ~VersionReqParseOk(dependency.version) THEN None
        ELSE IF response.tag = "Err" THEN Panic
        ELSE IF response.val = None THEN None
        ELSE IF ~VersionParseOk(response.val.val.latest_version) THEN Panic
        ELSE IF ~ReqMatches(VersionReqParse(dependency.version),
                            VersionParse(response.val.val.latest_version))
        THEN Some([name |-> dependency.name,
                   current_version |-> dependency.version,
                   latest_version |-> response.val.val.latest_version,
                   kind |-> dependency.kind,
                   package_name |-> workspace_member,
                   workspace_path |-> workspace_path])
        ELSE None

\* ------------------------------------------- the registry's JSON body
\* a string is the sequence of its pieces: a blank, a line break, one of
\* the comparator characters, or a run of any other characters
Whitespace == {" ", "\n"}

RECURSIVE TrimStartMatches(_, _)
TrimStartMatches(str, chars) ==
    IF str # << >> /\ Head(str) \in chars
    THEN TrimStartMatches(Tail(str), chars)
    ELSE str

RECURSIVE TrimEndMatches(_, _)
TrimEndMatches(str, chars) ==
    IF str # << >> /\ str[Len(str)] \in chars
    THEN TrimEndMatches(SubSeq(str, 1, Len(str) - 1), chars)
    ELSE str

\* str::trim
Trim(str) == TrimEndMatches(TrimStartMatches(str, Whitespace), Whitespace)

\* .split('\n').collect::<Vec<&str>>().join(" ")
JoinLines(str) == [i \in 1..Len(str) |-> IF str[i] = "\n" THEN " " ELSE str[i]]

\* serde_json::Value: a string, null, an object or an array
JString(str) == [type |-> "string", str |-> str]
JNull == [type |-> "null"]
JObject(fields) == [type |-> "object", fields |-> fields]
JArray(items) == [type |-> "array", items |-> items]

\* Value::get(key) and Map::get(key)
Get(value, key) ==
    IF value.type = "object" /\ key \in DOMAIN value.fields
    THEN Some(value.fields[key]) ELSE None

\* .and_then(|c| c.as_object()), .and_then(|c| c.as_array()) and
\* .and_then(|v| v.as_str()) over the Option a get returned
AndThenAs(option, type) ==
    IF option # None /\ option.val.type = type THEN option ELSE None

\* get_string_from_value
GetStringFromValue(value, key) ==
    LET str == IF value = None THEN None
               ELSE AndThenAs(Get(value.val, key), "string")
    IN  IF str = None THEN None ELSE Some(JoinLines(Trim(str.val.str)))

\* v.get("num").and_then(|v| v.as_str()).unwrap_or("")
NumOf(v) ==
    LET num == AndThenAs(Get(v, "num"), "string")
    IN  IF num = None THEN << >> ELSE num.val.str

\* the records the closure of find() accepts for the string `target`
FindByNum(items, target) == {i \in 1..Len(items) : NumOf(items[i]) = target}

\* a lookup that compares the version as it is passed, comparator and all
GetFieldFromVersionsUntrimmed(versions, version, key) ==
    LET found == IF versions = None THEN {}
                 ELSE FindByNum(versions.val.items, version)
        field == IF found = {} THEN None
                 ELSE AndThenAs(Get(versions.val.items[Min(found)], key), "string")
    IN  IF field = None THEN None ELSE Some(Trim(field.val.str))

\* get_field_from_versions
GetFieldFromVersions(versions, version, key) ==
    LET found == IF versions = None THEN {}
                 ELSE FindByNum(versions.val.items,
                                TrimStartMatches(version, {"=", "^"}))
        field == IF found = {} THEN None
                 ELSE AndThenAs(Get(versions.val.items[Min(found)], key), "string")
    IN  IF field = None THEN None ELSE Some(Trim(field.val.str))

\* CratesIoResponse::from_value
FromValue(value, version) ==
    LET data == AndThenAs(Get(value, "crate"), "object")
        versions == AndThenAs(Get(value, "versions"), "array")
        latest_version == GetStringFromValue(data, "max_stable_version")
    IN  IF latest_version = None THEN None
        ELSE Some([repository |-> GetStringFromValue(data, "repository"),
                   description |-> GetStringFromValue(data, "description"),
                   latest_version_date |->
                       GetFieldFromVersions(versions, latest_version.val, "updated_at"),
                   current_version_date |->
                       GetFieldFromVersions(versions, version, "updated_at"),
                   latest_version |-> latest_version.val])

\* ------------------------------------------------- Dependency ordering
\* an order that compares the names alone
DependencyLessByName(x, y) == NameRank(x.name) < NameRank(y.name)

\* impl Ord for Dependency: kind, then name
DependencyLess(x, y) ==
    \/ KindRank(x.kind) < KindRank(y.kind)
    \/ x.kind = y.kind /\ NameRank(x.name) < NameRank(y.name)

\* Vec::sort: a stable sort by that order (insertion into a sorted prefix,
\* after the elements that are not greater)
RECURSIVE SortDeps(_)
SortDeps(s) ==
    IF Len(s) <= 1 THEN s
    ELSE LET front == SortDeps(SubSeq(s, 1, Len(s) - 1))
             x == s[Len(s)]
             k == Cardinality({i \in 1..Len(front) : ~DependencyLess(x, front[i])})
         IN  SubSeq(front, 1, k) \o <<x>> \o SubSeq(front, k + 1, Len(front))

\* the key a record's document is stored under
PathKey(workspace_path) ==
    IF workspace_path = NoPath THEN RootPath ELSE workspace_path

\* ------------------------------------------------------------ the writer
\* a filter that keeps every record, selected or not
KeepEverything(deps, selected, i) == SubSeq(deps, i, Len(deps))

\* the zip and filter of filter_selected_dependencies
RECURSIVE KeepSelected(_, _, _)
KeepSelected(deps, selected, i) ==
    IF i > Len(deps) \/ i > Len(selected) THEN << >>
    ELSE (IF selected[i] THEN <<deps[i]>> ELSE << >>)
         \o KeepSelected(deps, selected, i + 1)

\* a filter that keeps every document, selected or not
FilterKeepingAllFiles(outdated_deps, selected) ==
    [dependencies |-> KeepSelected(outdated_deps.dependencies, selected, 1),
     cargo_toml_files |-> outdated_deps.cargo_toml_files]

\* Dependencies::filter_selected_dependencies
FilterSelectedDependencies(outdated_deps, selected) ==
    LET dependencies == KeepSelected(outdated_deps.dependencies, selected, 1)
        workspace_paths == {PathKey(dependencies[i].workspace_path) :
                              i \in 1..Len(dependencies)}
        kept == DOMAIN outdated_deps.cargo_toml_files \cap workspace_paths
    IN  [dependencies |-> dependencies,
         cargo_toml_files |->
            [path \in kept |-> outdated_deps.cargo_toml_files[path]]]

\* the value written for a record: the latest version, "=" before it on pin
NewVersion(dependency, pin) ==
    IF pin THEN [op |-> "=", v |-> dependency.latest_version.v]
    ELSE dependency.latest_version

\* an assignment that reaches every entry of the section
SetVersionOfAll(section, name, version) ==
    [i \in 1..Len(section) |-> [section[i] EXCEPT !.version = version]]

\* an assignment that also gives a version to the entries that have none
SetVersionFillingTables(section, name, version) ==
    [i \in 1..Len(section) |->
        IF section[i].name = name \/ section[i].version = NoVersion
        THEN [section[i] EXCEPT !.version = version]
        ELSE section[i]]

\* section[name] = version / section[name]["version"] = version
SetVersion(section, name, version) ==
    [i \in 1..Len(section) |->
        IF section[i].name = name
        THEN [section[i] EXCEPT !.version = version]
        ELSE section[i]]

\* Dependencies::apply_versions_by_kind over the records from index i on:
\* the documents after it
RECURSIVE ApplyVersionsByKind(_, _, _, _, _)
ApplyVersionsByKind(dependencies, files, kind, pin, i) ==
    IF i > Len(dependencies) THEN files
    ELSE IF dependencies[i].kind # kind
    THEN ApplyVersionsByKind(dependencies, files, kind, pin, i + 1)
    ELSE LET d == dependencies[i]
             path == PathKey(d.workspace_path)
             cargo_toml == files[path]
             section == SetVersion(cargo_toml.sections[kind], d.name,
                                   NewVersion(d, pin))
         IN  ApplyVersionsByKind(
                 dependencies,
                 [files EXCEPT ![path] =
                     [cargo_toml EXCEPT !.sections[kind] = section]],
                 kind, pin, i + 1)

\* the loop of apply_versions over DependencyKind::ordered()
RECURSIVE ApplyAllKinds(_, _, _, _)
ApplyAllKinds(dependencies, files, pin, k) ==
    IF k > Len(ordered) THEN files
    ELSE ApplyAllKinds(dependencies,
                       ApplyVersionsByKind(dependencies, files, ordered[k], pin, 1),
                       pin, k + 1)

\* ------------------------------------------------------------ the state
Paths == {RootPath} \cup MemberPaths

VARIABLES
    manifests,      \* path -> the Cargo.toml file as it is at startup
    lock_found,     \* a Cargo.lock that loads is in reach of the directory
    lockfile,       \* the packages of that Cargo.lock
    registry,       \* crate name -> what crates.io answers
    run,            \* which run of the program over these files this is
    pc,             \* where main is
    cargo,          \* path -> CargoDependencies gathered for it
    total_deps,     \* main's total_deps
    loads,          \* path -> how many times its Cargo.toml was read
    call,           \* path -> where its retrieve_outdated_dependencies call is
    threads,        \* path -> its fetch threads, [pc, result] each
    active,         \* path -> active_requests of its call
    ret,            \* path -> the Dependencies its call returned
    args,           \* the command line flags read so far
    state,          \* cli::State: selected, cursor_location, outdated_deps
    selected_deps,  \* the Dependencies apply_versions runs on
    pending,        \* the documents apply_versions has still to write
    disk,           \* path -> the Cargo.toml document on disk
    writes,         \* path -> how many times its Cargo.toml was written
    checks,         \* how many times cargo check was run
    outcome,        \* how the run ended
    api             \* a call of CratesIoResponse::from_value: [value, version, returned]

inputVars == <<manifests, lock_found, lockfile, registry, run>>
fetchVars == <<cargo, total_deps, loads, call, threads, active, ret>>
uiVars == <<args, state>>
writerVars == <<selected_deps, pending, disk, writes, checks>>
vars == <<manifests, lock_found, lockfile, registry, run, pc, cargo, total_deps,
          loads, call, threads, active, ret, args, state, selected_deps, pending,
          disk, writes, checks, outcome, api>>

NoDependencies == [dependencies |-> << >>, cargo_toml_files |-> << >>]
NoState == [selected |-> << >>, cursor_location |-> 0,
            outdated_deps |-> NoDependencies]

\* no call of from_value on its own
NoCall == [pc |-> "idle", value |-> JNull, version |-> << >>, returned |-> None]

\* everything but the inputs, before main has done anything in the first
\* run over the files
Fresh ==
    /\ run = 1
    /\ pc = "gather"
    /\ cargo = << >>
    /\ total_deps = 0
    /\ loads = [p \in Paths |-> 0]
    /\ call = [p \in Paths |-> "idle"]
    /\ threads = [p \in Paths |-> << >>]
    /\ active = [p \in Paths |-> 0]
    /\ ret = [p \in Paths |-> NoDependencies]
    /\ args = << >>
    /\ state = NoState
    /\ selected_deps = NoDependencies
    /\ pending = {}
    /\ disk = manifests
    /\ writes = [p \in Paths |-> 0]
    /\ checks = 0
    /\ outcome = "running"

Start == Fresh /\ api = NoCall

\* ---------------------------------------------------------- gathering
\* one anchor per crate name: the binary search is a function of the list
\* and the key
AnchorChoices(packages) ==
    {anchor \in [NameSet -> 0..Len(packages)] :
        \A n \in NameSet : anchor[n] \in BinarySearchAnchors(packages, n)}

\* the document an empty string parses to
EmptyDocument ==
    [package_name |-> "",
     sections |-> [k \in Kinds |-> << >>],
     members |-> << >>,
     items |-> [k \in Kinds \cup {"Members"} |-> "missing"],
     parses |-> TRUE]

\* read_cargo_file: [panic, doc]; a file that cannot be read is reported
\* and read as the empty string, a content that is not TOML panics
ReadCargoFile(relative_path) ==
    IF relative_path \notin DOMAIN manifests
    THEN [panic |-> FALSE, doc |-> EmptyDocument]
    ELSE [panic |-> ~manifests[relative_path].parses,
          doc |-> manifests[relative_path]]

\* CargoDependencies::gather_dependencies_inner for one manifest
GatherDependenciesInner(relative_path, packages, anchor) ==
    LET cargo_toml == ReadCargoFile(relative_path).doc
        found == GetCargoDependencies(cargo_toml, packages, anchor)
    IN  [cargo_toml |-> cargo_toml,
         package_name |-> cargo_toml.package_name,
         dependencies |-> found.deps]

\* a panic of read_cargo_file or of extract_dependencies_from_sections for
\* that manifest
GatherPanics(relative_path, packages, anchor) ==
    \/ ReadCargoFile(relative_path).panic
    \/ GetCargoDependencies(ReadCargoFile(relative_path).doc, packages, anchor).panic

\* read_cargo_lock_file: a panic when no Cargo.lock loads in the current
\* directory or the six above it
ReadCargoLockFilePanics == ~lock_found

\* a count of the manifest's own dependencies alone
lenOfOwn(gathered, p) == Len(gathered[p].dependencies)

\* CargoDependencies::len over what was gathered: the dependencies of the
\* manifest at p and the len of each of its workspace_members
RECURSIVE SumLen(_, _)
SumLen(gathered, S) ==
    IF S = {} THEN 0
    ELSE LET m == CHOOSE x \in S : TRUE
         IN  Len(gathered[m].dependencies) + SumLen(gathered, S \ {m})

len(gathered, p) ==
    Len(gathered[p].dependencies)
    + SumLen(gathered, IF p = RootPath THEN DOMAIN gathered \ {RootPath} ELSE {})

\* how many times gather_dependencies_inner runs for path p, and so how
\* many times read_cargo_file reads its Cargo.toml: once for the root, and
\* once for each element of the root's member list that is the string p
ReadsOf(cargo_toml, p) ==
    IF p = RootPath THEN 1
    ELSE IF cargo_toml.items["Members"] # "array" THEN 0
    ELSE Cardinality({i \in 1..Len(cargo_toml.members) : cargo_toml.members[i] = p})

\* main lines 18-19: CargoDependencies::gather_dependencies(), the lockfile,
\* the root and then each member of its member list, and the total count; a
\* panic in any of them ends the process
Gather ==
    /\ pc = "gather"
    /\ \E anchor \in AnchorChoices(lockfile) :
          LET gathered == [p \in {RootPath}
                                  \cup WorkspaceMemberKeys(ReadCargoFile(RootPath).doc)
                              |-> GatherDependenciesInner(p, lockfile, anchor)]
          IN  IF \/ ReadCargoLockFilePanics
                 \/ \E p \in DOMAIN gathered : GatherPanics(p, lockfile, anchor)
              THEN /\ pc' = "exit"
                   /\ outcome' = "panic"
                   /\ UNCHANGED fetchVars
              ELSE /\ pc' = "retrieve"
                   /\ cargo' = gathered
                   /\ total_deps' = len(gathered, RootPath)
                   /\ loads' = [p \in Paths |->
                                  ReadsOf(ReadCargoFile(RootPath).doc, p)]
                   /\ call' = [call EXCEPT ![RootPath] = "start"]
                   /\ UNCHANGED <<threads, active, ret, outcome>>
    /\ UNCHANGED <<inputVars, api, uiVars, writerVars>>

\* ---------------------------------- retrieve_outdated_dependencies
\* self.workspace_members of the call for path p: the root's map holds the
\* members, a member's map is empty (should_retrieve_workspace_members)
WorkspaceMembers(p) == IF p = RootPath THEN DOMAIN cargo \ {RootPath} ELSE {}

\* the workspace_path argument of the call for path p
WorkspacePath(p) == IF p = RootPath THEN NoPath ELSE p

\* lines 91-132: a thread per dependency, then a thread per member
Spawn(p) ==
    /\ call[p] = "start"
    /\ threads' = [threads EXCEPT ![p] =
                      [i \in 1..Len(cargo[p].dependencies) |->
                          [pc |-> "wait", result |-> None]]]
    /\ active' = [active EXCEPT ![p] = 0]
    /\ call' = [q \in Paths |->
                  IF q = p THEN "join"
                  ELSE IF q \in WorkspaceMembers(p) THEN "start"
                  ELSE call[q]]
    /\ UNCHANGED <<inputVars, api, pc, cargo, total_deps, loads, ret, uiVars, writerVars, outcome>>

\* one turn of the loop of lines 107-115: take a slot, or sleep and retry
TryAcquire(p, i) ==
    /\ i \in 1..Len(threads[p])
    /\ threads[p][i].pc = "wait"
    /\ IF active[p] < Cap
       THEN /\ active' = [active EXCEPT ![p] = @ + 1]
            /\ threads' = [threads EXCEPT ![p][i].pc = "fetch"]
       ELSE UNCHANGED <<active, threads>>
    /\ UNCHANGED <<inputVars, api, pc, cargo, total_deps, loads, call, ret, uiVars, writerVars, outcome>>

\* a fetch that is tried again when it fails
CompleteWithRetry(p, i) ==
    /\ i \in 1..Len(threads[p])
    /\ threads[p][i].pc = "fetch"
    /\ LET result == GetLatestVersionWrapper(cargo[p].dependencies[i],
                                             cargo[p].package_name,
                                             WorkspacePath(p), registry)
       IN  IF result = Panic
           THEN threads' = [threads EXCEPT ![p][i].pc = "wait"]
           ELSE threads' = [threads EXCEPT ![p][i] =
                               [pc |-> "done", result |-> result]]
    /\ active' = [active EXCEPT ![p] = @ - 1]
    /\ UNCHANGED <<inputVars, api, pc, cargo, total_deps, loads, call, ret, uiVars, writerVars, outcome>>

\* lines 117-122: the fetch and compare, then the slot is given back; a
\* panic of the wrapper unwinds the thread before line 120
Complete(p, i) ==
    /\ i \in 1..Len(threads[p])
    /\ threads[p][i].pc = "fetch"
    /\ LET result == GetLatestVersionWrapper(cargo[p].dependencies[i],
                                             cargo[p].package_name,
                                             WorkspacePath(p), registry)
       IN  IF result = Panic
           THEN /\ threads' = [threads EXCEPT ![p][i].pc = "panicked"]
                /\ UNCHANGED active
           ELSE /\ threads' = [threads EXCEPT ![p][i] =
                                  [pc |-> "done", result |-> result]]
                /\ active' = [active EXCEPT ![p] = @ - 1]
    /\ UNCHANGED <<inputVars, api, pc, cargo, total_deps, loads, call, ret, uiVars, writerVars, outcome>>

Ended(t) == t.pc \in {"done", "panicked"}

\* lines 134-138: flat_map over join() drops a panicked thread, flatten
\* drops a None
RECURSIVE JoinDirect(_, _)
JoinDirect(ts, i) ==
    IF i > Len(ts) THEN << >>
    ELSE (IF ts[i].pc = "done" /\ ts[i].result # None
          THEN <<ts[i].result.val>> ELSE << >>)
         \o JoinDirect(ts, i + 1)

\* the orders a HashMap over the keys S may be iterated in
Orders(S) ==
    {o \in [1..Cardinality(S) -> S] :
        \A i, j \in 1..Cardinality(S) : o[i] = o[j] => i = j}

\* a join that extends the records and leaves the documents out
RECURSIVE ExtendDependenciesOnly(_, _, _, _)
ExtendDependenciesOnly(acc, results, o, i) ==
    IF i > Len(o) THEN acc
    ELSE ExtendDependenciesOnly(
             [dependencies |->
                 acc.dependencies \o results[o[i]].dependencies,
              cargo_toml_files |-> acc.cargo_toml_files],
             results, o, i + 1)

\* lines 140-147 for the members in the order o: extend by each result
RECURSIVE ExtendWithMembers(_, _, _, _)
ExtendWithMembers(acc, results, o, i) ==
    IF i > Len(o) THEN acc
    ELSE ExtendWithMembers(
             [dependencies |->
                 acc.dependencies \o results[o[i]].dependencies,
              cargo_toml_files |->
                 results[o[i]].cargo_toml_files @@ acc.cargo_toml_files],
             results, o, i + 1)

\* lines 93-99 and 134-151 for given thread results, member results and
\* iteration order
JoinedResult(p, ts, results, o) ==
    LET own == [dependencies |-> JoinDirect(ts, 1),
                cargo_toml_files |->
                    (PathKey(WorkspacePath(p)) :> cargo[p].cargo_toml)]
        all == ExtendWithMembers(own, results, o, 1)
    IN  [dependencies |-> SortDeps(all.dependencies),
         cargo_toml_files |-> all.cargo_toml_files]

\* a return that does not wait for the threads or the members
JoinWithoutWaiting(p) ==
    /\ call[p] = "join"
    /\ \E o \in Orders(WorkspaceMembers(p)) :
          ret' = [ret EXCEPT ![p] = JoinedResult(p, threads[p], ret, o)]
    /\ call' = [call EXCEPT ![p] = "returned"]
    /\ pc' = IF p = RootPath THEN "retrieved" ELSE pc
    /\ UNCHANGED <<inputVars, api, cargo, total_deps, loads, threads, active, uiVars, writerVars, outcome>>

\* lines 134-151: both joins block until every thread has ended; the call
\* then returns, and the root's return gives main its outdated_deps
Join(p) ==
    /\ call[p] = "join"
    /\ \A i \in 1..Len(threads[p]) : Ended(threads[p][i])
    /\ \A m \in WorkspaceMembers(p) : call[m] = "returned"
    /\ \E o \in Orders(WorkspaceMembers(p)) :
          ret' = [ret EXCEPT ![p] = JoinedResult(p, threads[p], ret, o)]
    /\ call' = [call EXCEPT ![p] = "returned"]
    /\ pc' = IF p = RootPath THEN "retrieved" ELSE pc
    /\ UNCHANGED <<inputVars, api, cargo, total_deps, loads, threads, active, uiVars, writerVars, outcome>>

NextFetch ==
    \/ Gather
    \/ \E p \in Paths : Spawn(p)
    \/ \E p \in Paths : \E i \in DOMAIN threads[p] : TryAcquire(p, i)
    \/ \E p \in Paths : \E i \in DOMAIN threads[p] : Complete(p, i)
    \/ \E p \in Paths : Join(p)

\* ------------------------------------------------- main, after retrieval
\* a flag of Args is drawn where main first reads it: it is fixed from
\* startup on and nothing before that point depends on it.
\* main.rs lines 21-40: nothing outdated ends the run; otherwise State::new
\* with every record selected or not as --all says, and --yes applies at once
NewState ==
    /\ pc = "retrieved"
    /\ IF Len(ret[RootPath].dependencies) = 0
       THEN /\ pc' = "exit"
            /\ outcome' = "up to date"
            /\ UNCHANGED uiVars
       ELSE \E all \in BOOLEAN, yes \in BOOLEAN :
              /\ args' = ("all" :> all) @@ ("yes" :> yes)
              /\ state' = [selected |->
                              [i \in 1..Len(ret[RootPath].dependencies) |-> all],
                           cursor_location |-> 0,
                           outdated_deps |-> ret[RootPath]]
              /\ pc' = IF yes THEN "apply" ELSE "ui"
              /\ UNCHANGED outcome
    /\ UNCHANGED <<inputVars, api, fetchVars, writerVars>>

\* --------------------------------- cli::State::handle_keyboard_event
NumOutdated == Len(state.outdated_deps.dependencies)

KeyUp ==
    /\ pc = "ui"
    /\ state' = [state EXCEPT !.cursor_location =
                    IF @ = 0 THEN NumOutdated - 1 ELSE @ - 1]
    /\ UNCHANGED <<inputVars, api, pc, fetchVars, args, writerVars, outcome>>

KeyDown ==
    /\ pc = "ui"
    /\ state' = [state EXCEPT !.cursor_location = (@ + 1) % NumOutdated]
    /\ UNCHANGED <<inputVars, api, pc, fetchVars, args, writerVars, outcome>>

\* a next_section_location that stays where it is after the last section
NextSectionLocationNoWrap(dependencies, cursor_location) ==
    LET n == Len(dependencies)
        curr_kind == dependencies[cursor_location + 1].kind
        first == Min({i \in 0..(n - 1) : dependencies[i + 1].kind = curr_kind})
        rest == {i \in first..(n - 1) : dependencies[i + 1].kind # curr_kind}
    IN  IF rest # {} THEN Min(rest) ELSE cursor_location

\* State::next_section_location over 0-based indexes: the first skip_while
\* stops at the first record of curr_kind, the second at the first record
\* of another kind after it
NextSectionLocation(dependencies, cursor_location) ==
    LET n == Len(dependencies)
        curr_kind == dependencies[cursor_location + 1].kind
        first == Min({i \in 0..(n - 1) : dependencies[i + 1].kind = curr_kind})
        rest == {i \in first..(n - 1) : dependencies[i + 1].kind # curr_kind}
    IN  IF rest # {} THEN Min(rest)
        ELSE IF dependencies[1].kind = curr_kind THEN cursor_location
        ELSE 0

\* State::prev_section_location over 0-based indexes: going down from the
\* cursor, skip_while passes the records of curr_kind; from the record
\* (i_, d_) it stops at, take_while runs on over the records of d_.kind and
\* last() is the lowest of them
PrevSectionLocation(dependencies, cursor_location) ==
    LET n == Len(dependencies)
        curr_kind == dependencies[cursor_location + 1].kind
        before == {i \in 0..(cursor_location - 1) :
                      dependencies[i + 1].kind # curr_kind}
        RunDownFrom(top) ==
            Min({j \in 0..top :
                    \A k \in j..top :
                        dependencies[k + 1].kind = dependencies[top + 1].kind})
    IN  IF before # {} THEN RunDownFrom(Max(before))
        ELSE IF dependencies[n].kind = curr_kind THEN cursor_location
        ELSE RunDownFrom(n - 1)

\* Left, h, BackTab
KeyLeft ==
    /\ pc = "ui"
    /\ state' = [state EXCEPT !.cursor_location =
                    PrevSectionLocation(state.outdated_deps.dependencies, @)]
    /\ UNCHANGED <<inputVars, api, pc, fetchVars, args, writerVars, outcome>>

\* Right, l, Tab
KeyRight ==
    /\ pc = "ui"
    /\ state' = [state EXCEPT !.cursor_location =
                    NextSectionLocation(state.outdated_deps.dependencies, @)]
    /\ UNCHANGED <<inputVars, api, pc, fetchVars, args, writerVars, outcome>>

\* a Space that also moves the cursor down
KeySpaceAdvancing ==
    /\ pc = "ui"
    /\ state' = [state EXCEPT !.selected[state.cursor_location + 1] = ~@,
                              !.cursor_location = (@ + 1) % NumOutdated]
    /\ UNCHANGED <<inputVars, api, pc, fetchVars, args, writerVars, outcome>>

KeySpace ==
    /\ pc = "ui"
    /\ state' = [state EXCEPT !.selected[state.cursor_location + 1] = ~@]
    /\ UNCHANGED <<inputVars, api, pc, fetchVars, args, writerVars, outcome>>

\* an 'a' that inverts the selection
KeyAInverting ==
    /\ pc = "ui"
    /\ state' = [state EXCEPT !.selected =
                    [i \in 1..Len(state.selected) |-> ~state.selected[i]]]
    /\ UNCHANGED <<inputVars, api, pc, fetchVars, args, writerVars, outcome>>

KeyA ==
    /\ pc = "ui"
    /\ state' = [state EXCEPT !.selected =
                    IF \A i \in 1..Len(state.selected) : state.selected[i]
                    THEN [i \in 1..NumOutdated |-> FALSE]
                    ELSE [i \in 1..NumOutdated |-> TRUE]]
    /\ UNCHANGED <<inputVars, api, pc, fetchVars, args, writerVars, outcome>>

KeyI ==
    /\ pc = "ui"
    /\ state' = [state EXCEPT !.selected =
                    [i \in 1..Len(state.selected) |-> ~state.selected[i]]]
    /\ UNCHANGED <<inputVars, api, pc, fetchVars, args, writerVars, outcome>>

\* any other key: `_ => {}`
KeyOther ==
    /\ pc = "ui"
    /\ UNCHANGED vars

\* Enter: Event::UpdateDependencies
KeyEnter ==
    /\ pc = "ui"
    /\ pc' = "apply"
    /\ UNCHANGED <<inputVars, api, fetchVars, uiVars, writerVars, outcome>>

\* a quit that saves the selection on its way out
KeyQuitSaving ==
    /\ pc = "ui"
    /\ pc' = "exit"
    /\ outcome' = "quit"
    /\ LET chosen == FilterSelectedDependencies(state.outdated_deps, state.selected)
       IN  disk' = ApplyAllKinds(chosen.dependencies, chosen.cargo_toml_files,
                                 FALSE, 1) @@ disk
    /\ UNCHANGED <<inputVars, api, fetchVars, uiVars, selected_deps, pending, writes, checks>>

\* Esc, q, Ctrl-C, Ctrl-Z: Event::Exit
KeyQuit ==
    /\ pc = "ui"
    /\ pc' = "exit"
    /\ outcome' = "quit"
    /\ UNCHANGED <<inputVars, api, fetchVars, uiVars, writerVars>>

\* ------------------------------------------- Dependencies::apply_versions
\* state.selected_dependencies() and lines 83-93 of apply_versions: an empty
\* selection returns at once, otherwise every kind is applied to the
\* documents in memory
ApplyVersions ==
    /\ pc = "apply"
    /\ LET chosen == FilterSelectedDependencies(state.outdated_deps, state.selected)
       IN  IF Len(chosen.dependencies) = 0
           THEN /\ selected_deps' = chosen
                /\ pc' = "exit"
                /\ outcome' = "nothing updated"
                /\ UNCHANGED <<args, pending>>
           ELSE \E pin \in BOOLEAN :
                  /\ args' = args @@ ("pin" :> pin)
                  /\ selected_deps' =
                        [chosen EXCEPT !.cargo_toml_files =
                            ApplyAllKinds(chosen.dependencies,
                                          chosen.cargo_toml_files, pin, 1)]
                  /\ pending' = DOMAIN chosen.cargo_toml_files
                  /\ pc' = "write"
                  /\ UNCHANGED outcome
    /\ UNCHANGED <<inputVars, api, fetchVars, state, disk, writes, checks>>

\* a writer that restores every file when a write fails
WriteFileWithRollback ==
    /\ pc = "write"
    /\ \E path \in pending : \E ok \in BOOLEAN :
          IF ok
          THEN /\ disk' = (path :> selected_deps.cargo_toml_files[path]) @@ disk
               /\ writes' = [writes EXCEPT ![path] = @ + 1]
               /\ pending' = pending \ {path}
               /\ UNCHANGED <<pc, outcome>>
          ELSE /\ pc' = "exit"
               /\ outcome' = "write error"
               /\ disk' = manifests
               /\ UNCHANGED <<writes, pending>>
    /\ UNCHANGED <<inputVars, api, fetchVars, uiVars, selected_deps, checks>>

\* lines 95-101: the next document of the map is written; a failed write
\* returns the error
WriteFile ==
    /\ pc = "write"
    /\ \E path \in pending : \E ok \in BOOLEAN :
          IF ok
          THEN /\ disk' = (path :> selected_deps.cargo_toml_files[path]) @@ disk
               /\ writes' = [writes EXCEPT ![path] = @ + 1]
               /\ pending' = pending \ {path}
               /\ UNCHANGED <<pc, outcome>>
          ELSE /\ pc' = "exit"
               /\ outcome' = "write error"
               /\ UNCHANGED <<disk, writes, pending>>
    /\ UNCHANGED <<inputVars, api, fetchVars, uiVars, selected_deps, checks>>

\* a cargo check that does not wait for the writes
CargoCheckEarly ==
    /\ pc = "write"
    /\ \E no_check \in BOOLEAN :
          /\ args' = args @@ ("no_check" :> no_check)
          /\ checks' = IF no_check THEN checks ELSE checks + 1
    /\ pc' = "exit"
    /\ outcome' = "updated"
    /\ UNCHANGED <<inputVars, api, fetchVars, state, selected_deps, pending, disk, writes>>

\* lines 103-108: cargo check unless --no-check, then Ok
CargoCheck ==
    /\ pc = "write"
    /\ pending = {}
    /\ \E no_check \in BOOLEAN :
          /\ args' = args @@ ("no_check" :> no_check)
          /\ checks' = IF no_check THEN checks ELSE checks + 1
    /\ pc' = "exit"
    /\ outcome' = "updated"
    /\ UNCHANGED <<inputVars, api, fetchVars, state, selected_deps, pending, disk, writes>>

Next ==
    \/ NextFetch
    \/ NewState
    \/ KeyUp \/ KeyDown \/ KeyLeft \/ KeyRight
    \/ KeySpace \/ KeyA \/ KeyI \/ KeyOther \/ KeyEnter \/ KeyQuit
    \/ ApplyVersions
    \/ WriteFile
    \/ CargoCheck

\* ------------------------------------------------------ the workspaces
PackageName(p) == IF p = RootPath THEN "app" ELSE p

\* a set of crate names as a section, in name order
RECURSIVE SectionOf(_, _, _)
SectionOf(names, version, i) ==
    IF i > Len(CrateNames) THEN << >>
    ELSE (IF CrateNames[i] \in names
          THEN <<[name |-> CrateNames[i], shape |-> "string",
                  version |-> version, package |-> NoPackage]>>
          ELSE << >>)
         \o SectionOf(names, version, i + 1)

RECURSIVE SeqOfPaths(_)
SeqOfPaths(S) ==
    IF S = {} THEN << >>
    ELSE LET m == CHOOSE x \in S : TRUE IN <<m>> \o SeqOfPaths(S \ {m})

\* a document whose sections hold the entries of `slots` that are at path p
Document(p, slots, version, members) ==
    [package_name |-> PackageName(p),
     sections |-> [k \in Kinds |->
                     SectionOf({n \in NameSet : <<p, k, n>> \in slots}, version, 1)],
     members |-> IF p = RootPath THEN SeqOfPaths(members) ELSE << >>,
     items |-> [k \in Kinds \cup {"Members"} |->
                  IF k = "Members"
                  THEN (IF p = RootPath /\ members # {} THEN "array" ELSE "missing")
                  ELSE (IF \E n \in NameSet : <<p, k, n>> \in slots
                        THEN "table" ELSE "missing")],
     parses |-> TRUE]

\* the answers of the registry in the pipeline's workspaces
Answers == {Latest(<<2, 0, 0>>), Latest(<<1, 2, 0>>), Missing, Unreachable}

\* every crate locked at 1.0.0
LockAll == [i \in 1..Len(CrateNames) |->
              [name |-> CrateNames[i], version |-> <<1, 0, 0>>]]

\* the pipeline's workspaces: at most MaxDeps entries, each a bare "1.0.0"
\* in [dependencies] or [dev-dependencies] of the root or of a member
Slots == Paths \X {"Normal", "Dev"} \X NameSet

Init ==
    /\ \E slots \in SUBSET Slots : \E members \in SUBSET MemberPaths :
          /\ Cardinality(slots) <= MaxDeps
          /\ \A s \in slots : s[1] \in {RootPath} \cup members
          /\ manifests = [p \in {RootPath} \cup members |->
                            Document(p, slots, VersionToString(<<1, 0, 0>>), members)]
    /\ lock_found = TRUE
    /\ lockfile = LockAll
    /\ registry \in [NameSet -> Answers]
    /\ Start

Spec == Init /\ [][Next]_vars

\* ------------------------------- workspaces that exercise the cap
\* every thread a call may have
ThreadIds == {<<p, i>> : p \in Paths, i \in 1..(Len(ordered) * Len(CrateNames))}

\* every (kind, name) key a manifest can hold, in section and name order
AllKeys ==
    [i \in 1..(Len(ordered) * Len(CrateNames)) |->
        <<ordered[((i - 1) \div Len(CrateNames)) + 1],
          CrateNames[((i - 1) % Len(CrateNames)) + 1]>>]

FirstKeys(p, n) == {<<p, AllKeys[i][1], AllKeys[i][2]>> : i \in 1..n}

\* the root declares the first nr keys and its member "a" the first nm
InitFetch ==
    /\ \E nr \in 0..MaxRootDeps : \E nm \in 0..MaxMemberDeps :
          manifests = [p \in {RootPath, "a"} |->
                         Document(p, FirstKeys(RootPath, nr) \cup FirstKeys("a", nm),
                                  VersionToString(<<1, 0, 0>>), {"a"})]
    /\ lock_found = TRUE
    /\ lockfile = LockAll
    /\ registry \in [NameSet -> Answers]
    /\ Start

SpecFetch == InitFetch /\ [][NextFetch]_vars

\* the same under fair scheduling, once the manifests are gathered: while
\* some call can spawn its threads, some thread can take a slot, some fetch
\* can return or fail, or some call can return from its joins, such a step
\* is taken. The polling loop of a thread that finds no free slot (lines
\* 107-115) is a step that changes nothing. Every step that changes the
\* state moves a call or a thread forward for good, so no thread that can
\* move is passed over for ever.
\* the step of Join(p) told by the call's state alone: Join(p) is the one
\* action that takes call[p] from "join" to "returned", under the same
\* conditions
JoinReturns(p) ==
    /\ call[p] = "join"
    /\ \A i \in 1..Len(threads[p]) : Ended(threads[p][i])
    /\ \A m \in WorkspaceMembers(p) : call[m] = "returned"
    /\ call' = [call EXCEPT ![p] = "returned"]

FairFetch ==
    /\ WF_vars(\E p \in Paths : Spawn(p))
    /\ WF_vars(\E t \in ThreadIds : TryAcquire(t[1], t[2]))
    /\ WF_vars(\E t \in ThreadIds : Complete(t[1], t[2]))
    /\ WF_call(\E p \in Paths : JoinReturns(p))

\* the workspaces of InitFetch with a registry that answers each crate
\* with a newer version or not at all
InitFetchFair ==
    /\ \E nr \in 0..MaxRootDeps : \E nm \in 0..MaxMemberDeps :
          manifests = [p \in {RootPath, "a"} |->
                         Document(p, FirstKeys(RootPath, nr) \cup FirstKeys("a", nm),
                                  VersionToString(<<1, 0, 0>>), {"a"})]
    /\ lock_found = TRUE
    /\ lockfile = LockAll
    /\ registry \in [NameSet -> {Latest(<<2, 0, 0>>), Unreachable}]
    /\ Start

SpecFetchFair == InitFetchFair /\ [][NextFetch]_vars /\ FairFetch

\* ------------------ one dependency, any requirement, lock and latest
ReqStrings == {[op |-> o, v |-> v] : o \in ReqOps, v \in Versions}

\* serde = R in [dependencies], a lockfile holding serde L, a registry
\* whose latest serde is V
InitResolve ==
    /\ \E R \in ReqStrings :
          manifests = (RootPath :>
                         Document(RootPath, {<<RootPath, "Normal", "serde">>}, R, {}))
    /\ lock_found = TRUE
    /\ \E L \in Versions : lockfile = <<[name |-> "serde", version |-> L]>>
    /\ \E V \in Versions :
          registry = [n \in NameSet |-> IF n = "serde" THEN Latest(V) ELSE Missing]
    /\ Start

SpecResolve == InitResolve /\ [][NextFetch]_vars

\* ------------- requirement and latest version strings that do not parse
\* the root declares some of the crates in [dependencies], all with the
\* requirement R, which may be no requirement at all; every crate is locked
\* at 1.0.0; the registry answers each crate with a version or with a
\* string that is no version
InitInvalid ==
    /\ \E names \in SUBSET NameSet \ {{}} :
       \E R \in {VersionToString(<<1, 0, 0>>), NotSemver(<<1, 0, 0>>)} :
          manifests = (RootPath :>
                         Document(RootPath, {RootPath} \X {"Normal"} \X names, R, {}))
    /\ lock_found = TRUE
    /\ lockfile = LockAll
    /\ registry \in [NameSet -> {Latest(<<1, 0, 0>>), Latest(<<2, 0, 0>>),
                                 Garbled(<<2, 0, 0>>)}]
    /\ Start

SpecInvalid == InitInvalid /\ [][Next]_vars

\* ------------------------------------- lists for the selection UI
\* the root declares one to MaxUiDeps entries over the four sections, each
\* a bare "1.0.0" locked at 1.0.0 with 2.0.0 in the registry: every entry
\* is outdated and the list has one to four kind groups of one or two
InitUi ==
    /\ \E slots \in SUBSET ({RootPath} \X Kinds \X NameSet) :
          /\ Cardinality(slots) \in 1..MaxUiDeps
          /\ manifests = (RootPath :>
                            Document(RootPath, slots, VersionToString(<<1, 0, 0>>), {}))
    /\ lock_found = TRUE
    /\ lockfile = LockAll
    /\ registry = [n \in NameSet |-> Latest(<<2, 0, 0>>)]
    /\ Start

SpecUi == InitUi /\ [][Next]_vars

\* ---------------------- member lists and files of every condition
\* what an element of workspace.members may be
MemberEntries == {RootPath, NotAString, "a", "b"}

\* workspace.members of the root: an array of up to MaxMembers elements,
\* missing, or a value that is not an array
MemberLists ==
    {[item |-> "array", list |-> l] :
        l \in UNION {[1..n -> MemberEntries] : n \in 0..MaxMembers}}
    \cup {[item |-> "missing", list |-> << >>], [item |-> "value", list |-> << >>]}

\* the Cargo.toml at p: serde = "1.0.0" in [dependencies] or nothing, the
\* given workspace.members, and a content that is TOML or is not
WalkDocument(p, declares, members, parses) ==
    [Document(p, IF declares THEN {<<p, "Normal", "serde">>} ELSE {},
              VersionToString(<<1, 0, 0>>), {})
        EXCEPT !.members = members.list,
               !.items["Members"] = members.item,
               !.parses = parses]

FileStates == {"present", "not TOML", "missing"}

\* the root with any member list, member a which may list b as a member of
\* its own, member b; the files of the root and of a and the lockfile may
\* be missing or unreadable
InitWalk ==
    /\ \E members \in MemberLists :
       \E declares \in [Paths -> BOOLEAN] :
       \E nested \in {[item |-> "missing", list |-> << >>],
                      [item |-> "array", list |-> <<"b">>]} :
       \E file \in [{RootPath, "a"} -> FileStates] :
          manifests =
             [p \in {q \in Paths : q = "b" \/ file[q] # "missing"} |->
                 WalkDocument(p, declares[p],
                              IF p = RootPath THEN members
                              ELSE IF p = "a" THEN nested
                              ELSE [item |-> "missing", list |-> << >>],
                              p = "b" \/ file[p] = "present")]
    /\ lock_found \in BOOLEAN
    /\ lockfile = LockAll
    /\ registry = [n \in NameSet |-> Latest(<<2, 0, 0>>)]
    /\ Start

SpecWalk == InitWalk /\ [][NextFetch]_vars

\* ------------------- lockfiles with several versions of one crate
\* the versions a lockfile entry and a requirement are drawn from
LockVersions == {<<1, 0, 0>>, <<1, 1, 0>>, <<2, 0, 0>>}

LockPackages == [name : NameSet, version : LockVersions]

\* Lockfile::packages is sorted by name; the versions of one name are in
\* any order
SortedByName(packages) ==
    \A i \in 1..(Len(packages) - 1) :
        NameRank(packages[i].name) <= NameRank(packages[i + 1].name)

Lockfiles ==
    UNION {{packages \in [1..n -> LockPackages] : SortedByName(packages)} :
              n \in 0..MaxLock}

\* serde = R in [dependencies] of the root, over such a lockfile
InitLock ==
    /\ \E o \in ReqOps : \E v \in LockVersions :
          manifests = (RootPath :>
                         Document(RootPath, {<<RootPath, "Normal", "serde">>},
                                  [op |-> o, v |-> v], {}))
    /\ lock_found = TRUE
    /\ lockfile \in Lockfiles
    /\ registry = [n \in NameSet |-> Latest(<<2, 0, 0>>)]
    /\ Start

SpecLock == InitLock /\ [][NextFetch]_vars

\* --------------------------- entries of every shape, and renames
\* the other crate name, which a renamed entry names as its package
OtherName(n) == CHOOSE m \in NameSet : m # n

\* how an entry may be written: "1.0.0" as a bare string, an inline table
\* or a nested table with version = "1.0.0", with or without package = ..;
\* a table without a version (workspace = true); a value of another type
EntryForms ==
    {[shape |-> "string", version |-> VersionToString(<<1, 0, 0>>), renamed |-> FALSE],
     [shape |-> "inline", version |-> VersionToString(<<1, 0, 0>>), renamed |-> FALSE],
     [shape |-> "inline", version |-> VersionToString(<<1, 0, 0>>), renamed |-> TRUE],
     [shape |-> "table", version |-> VersionToString(<<1, 0, 0>>), renamed |-> FALSE],
     [shape |-> "table", version |-> VersionToString(<<1, 0, 0>>), renamed |-> TRUE],
     [shape |-> "inline", version |-> NoVersion, renamed |-> FALSE],
     [shape |-> "other", version |-> NoVersion, renamed |-> FALSE]}

ShapedEntry(n, f) ==
    [name |-> n, shape |-> f.shape, version |-> f.version,
     package |-> IF f.renamed THEN OtherName(n) ELSE NoPackage]

\* the entries that forms gives to section k of path p, in name order
RECURSIVE ShapedSection(_, _, _, _)
ShapedSection(p, k, forms, i) ==
    IF i > Len(CrateNames) THEN << >>
    ELSE (IF <<p, k, CrateNames[i]>> \in DOMAIN forms
          THEN <<ShapedEntry(CrateNames[i], forms[<<p, k, CrateNames[i]>>])>>
          ELSE << >>)
         \o ShapedSection(p, k, forms, i + 1)

\* the document at p: its entries as forms gives them; a section without
\* entries is `empty`: missing, an empty table, or a value of another type
ShapedDocument(p, forms, members, empty) ==
    [package_name |-> PackageName(p),
     sections |-> [k \in Kinds |-> ShapedSection(p, k, forms, 1)],
     members |-> IF p = RootPath THEN SeqOfPaths(members) ELSE << >>,
     items |-> [k \in Kinds \cup {"Members"} |->
                  IF k = "Members"
                  THEN (IF p = RootPath /\ members # {} THEN "array" ELSE "missing")
                  ELSE (IF \E n \in NameSet : <<p, k, n>> \in DOMAIN forms
                        THEN "table" ELSE empty)],
     parses |-> TRUE]

\* where the entries may be: [dependencies] of the root, serde in its
\* [dev-dependencies] and in [dependencies] of member a
ShapeSlots ==
    {<<RootPath, "Normal", "base64">>, <<RootPath, "Normal", "serde">>,
     <<RootPath, "Dev", "serde">>, <<"a", "Normal", "serde">>}

\* a lockfile holding both crates at versions of their own, or serde alone
LockApart == <<[name |-> "base64", version |-> <<1, 1, 0>>],
               [name |-> "serde", version |-> <<1, 0, 0>>]>>
LockSerde == <<[name |-> "serde", version |-> <<1, 0, 0>>]>>

\* the forms the whole pipeline is run over: every shape that yields a
\* dependency but the plain nested table, and the table without a version
PipelineForms ==
    {f \in EntryForms :
        /\ f.shape # "other"
        /\ f.shape = "table" => f.renamed}

\* the root and its member a, with up to MaxDeps entries of those forms
InitShapes ==
    /\ \E slots \in SUBSET ShapeSlots :
          /\ Cardinality(slots) <= MaxDeps
          /\ \E forms \in [slots -> PipelineForms] :
                manifests = [p \in {RootPath, "a"} |->
                               ShapedDocument(p, forms, {"a"}, "missing")]
    /\ lock_found = TRUE
    /\ lockfile \in {LockApart, LockSerde}
    /\ \E v \in {<<1, 0, 0>>, <<2, 0, 0>>} :
          registry = [n \in NameSet |->
                        IF n = "serde" THEN Latest(<<2, 0, 0>>) ELSE Latest(v)]
    /\ Start

SpecShapes == InitShapes /\ [][Next]_vars

\* the same with entries of every form, and sections without entries that
\* are missing, empty tables or values of another type; up to retrieval
InitExtract ==
    /\ \E slots \in SUBSET ShapeSlots :
          /\ Cardinality(slots) <= MaxDeps
          /\ \E forms \in [slots -> EntryForms] :
             \E empty \in {"missing", "table", "value"} :
                manifests = [p \in {RootPath, "a"} |->
                               ShapedDocument(p, forms, {"a"}, empty)]
    /\ lock_found = TRUE
    /\ lockfile \in {LockApart, LockSerde}
    /\ registry = [n \in NameSet |-> Latest(<<2, 0, 0>>)]
    /\ Start

SpecExtract == InitExtract /\ [][NextFetch]_vars

\* ------------------------------------------- from_value on its own
\* a field that the object does not have
Absent == [type |-> "absent"]

\* the object with the fields of f that are not Absent
MakeObject(f) ==
    JObject([k \in {k \in DOMAIN f : f[k] # Absent} |-> f[k]])

\* the "crate" objects: max_stable_version missing, null, empty, or a
\* version with or without blanks around it; repository and description
\* missing or a padded string
CrateObjects ==
    {MakeObject(("max_stable_version" :> m) @@ ("repository" :> r)
                @@ ("description" :> d)) :
        m \in {Absent, JNull, JString(<< >>), JString(<<"0.1.0">>),
               JString(<<" ", "0.2.0", "\n">>)},
        r \in {Absent, JString(<<" ", "https://github.com/user/repo", " ">>)},
        d \in {Absent, JString(<<" ", "A", "\n", "description", "\n", " ">>)}}

\* the records of "versions": num and updated_at, each missing or a string
VersionRecords ==
    {MakeObject(("num" :> n) @@ ("updated_at" :> u)) :
        n \in {Absent, JString(<<"0.1.0">>), JString(<<"0.2.0">>)},
        u \in {Absent, JString(<<" ", "2023-07-01", "\n">>),
               JString(<<"2023-07-02">>)}}

\* the bodies: "crate" and "versions" each missing, null or of their type
Bodies ==
    {MakeObject(("crate" :> c) @@ ("versions" :> v)) :
        c \in {Absent, JNull} \cup CrateObjects,
        v \in {Absent, JNull}
              \cup {JArray(l) : l \in UNION {[1..n -> VersionRecords] :
                                                n \in 0..MaxRecords}}}

\* the version from_value is passed: CargoDependency.version, also with a
\* comparator before it
VersionArguments == {<<"0.1.0">>, <<"=", "0.1.0">>, <<"^", "0.2.0">>}

\* api.rs line 109: CratesIoResponse::from_value(response, version)
FromValueCall ==
    /\ api.pc = "call"
    /\ api' = [api EXCEPT !.pc = "returned",
                          !.returned = FromValue(api.value, api.version)]
    /\ UNCHANGED <<inputVars, pc, fetchVars, uiVars, writerVars, outcome>>

InitApi ==
    /\ \E value \in Bodies : \E version \in VersionArguments :
          api = [pc |-> "call", value |-> value, version |-> version,
                 returned |-> None]
    /\ manifests = (RootPath :> EmptyDocument)
    /\ lock_found = TRUE
    /\ lockfile = << >>
    /\ registry = [n \in NameSet |-> Missing]
    /\ Fresh

SpecApi == InitApi /\ [][FromValueCall]_vars

\* ------------------------------------------------------- a second run
\* the entries of the dependency tables of the documents `files`
EntriesOf(files) ==
    UNION {UNION {{files[p].sections[k][i] : i \in 1..Len(files[p].sections[k])} :
                     k \in {k \in Kinds : files[p].items[k] = "table"}} :
              p \in DOMAIN files}

\* the requirements these documents put on the crate `name`
RequirementsOn(files, name) ==
    {e.version : e \in {e \in EntriesOf(files) :
                            /\ Extractable(e)
                            /\ VersionReqParseOk(e.version)
                            /\ LookupName(e.name, PackageOf(e)) = name}}

\* Cargo.lock after `cargo check` over the documents `files`: a package
\* that a requirement no longer admits is resolved again, to the version
\* that requirement names; every other package keeps its version
CargoCheckLock(files, packages) ==
    [j \in 1..Len(packages) |->
        LET unmet == {r \in RequirementsOn(files, packages[j].name) :
                         ~ReqMatches(VersionReqParse(r), packages[j].version)}
        IN  IF unmet = {} THEN packages[j]
            ELSE [packages[j] EXCEPT !.version = (CHOOSE r \in unmet : TRUE).v]]

\* the program is started again after a run that applied every outdated
\* record: it reads the manifests the first run wrote and the Cargo.lock
\* the first run left, which only its cargo check has touched
Rerun ==
    /\ run = 1
    /\ pc = "exit"
    /\ outcome = "updated"
    /\ \A i \in 1..Len(state.selected) : state.selected[i]
    /\ run' = 2
    /\ manifests' = disk
    /\ lockfile' = IF checks > 0 THEN CargoCheckLock(disk, lockfile) ELSE lockfile
    /\ pc' = "gather"
    /\ cargo' = << >>
    /\ total_deps' = 0
    /\ loads' = [p \in Paths |-> 0]
    /\ call' = [p \in Paths |-> "idle"]
    /\ threads' = [p \in Paths |-> << >>]
    /\ active' = [p \in Paths |-> 0]
    /\ ret' = [p \in Paths |-> NoDependencies]
    /\ args' = << >>
    /\ state' = NoState
    /\ selected_deps' = NoDependencies
    /\ pending' = {}
    /\ writes' = [p \in Paths |-> 0]
    /\ checks' = 0
    /\ outcome' = "running"
    /\ UNCHANGED <<lock_found, registry, disk, api>>

NextTwice == Next \/ Rerun

SpecTwice == Init /\ [][NextTwice]_vars

\* ---------------------------------------------------------------- claims
Live == {t \in ThreadIds : t[2] \in DOMAIN threads[t[1]]}
ThreadAt(t) == threads[t[1]][t[2]]
DependencyAt(t) == cargo[t[1]].dependencies[t[2]]

\* the fetches in flight in the whole workspace
InFlight == Cardinality({t \in Live : ThreadAt(t).pc = "fetch"})

\* C1: the number of registry fetches in flight across the whole workspace
\* (the root's threads and every member's) never exceeds the cap of 5.
C1_GlobalCap == InFlight <= Cap

\* C2: the slot counter of a call equals the number of its threads between
\* taking and giving back a slot, and is 0 once all of them have ended,
\* whether their fetch and compare completed or failed.
C2_NoSlotLeak ==
    \A p \in Paths :
        /\ active[p] = Cardinality({i \in DOMAIN threads[p] :
                                       threads[p][i].pc = "fetch"})
        /\ (\A i \in DOMAIN threads[p] : Ended(threads[p][i])) => active[p] = 0

\* C3: when a fetch thread failed to reach the registry, the run fails:
\* retrieve_outdated_dependencies returns no result list (from which the
\* failing dependency would be missing).
C3_FetchFailureIsFatal ==
    call[RootPath] = "returned" =>
        \A t \in Live : ThreadAt(t).pc # "panicked"

Returned == call[RootPath] = "returned"
Result == ret[RootPath].dependencies

\* the requirement the root declares for its first [dependencies] entry,
\* and the latest version the registry has for a crate
DeclaredReq == manifests[RootPath].sections["Normal"][1].version
LatestOf(name) == registry[name].v

\* C4: for a requirement R, a locked version L satisfying R and a latest
\* version V, an outdated record is emitted if and only if R does not
\* admit V (whatever L is).
C4_OutdatedIffReqRejectsLatest ==
    Returned =>
        (Len(Result) = 1 <=>
            ~ReqMatches(VersionReqParse(DeclaredReq), LatestOf("serde")))

\* C5: a dependency whose registry answer lacks the latest stable version
\* ends in a fatal error: its thread never completes with "nothing
\* outdated", which would drop it from the result as if it were up to date.
C5_MissingLatestIsFatal ==
    \A t \in Live :
        registry[LookupName(DependencyAt(t).name, DependencyAt(t).package)] = Missing
            => ThreadAt(t).pc # "done"

\* the scenario of C6: the only manifest is the root's, whose only entry is
\* serde = "1.0.0" in [dependencies]; serde is locked at 1.0.0
SerdeScenario(latest) ==
    /\ DOMAIN manifests = {RootPath}
    /\ manifests[RootPath].sections =
          [k \in Kinds |->
              IF k = "Normal"
              THEN <<[name |-> "serde", shape |-> "string",
                      version |-> [op |-> "", v |-> <<1, 0, 0>>],
                      package |-> NoPackage]>>
              ELSE << >>]
    /\ \E i \in DOMAIN lockfile :
          lockfile[i] = [name |-> "serde", version |-> <<1, 0, 0>>]
    /\ registry["serde"] = Latest(latest)

SerdeRecord(latest) ==
    [name |-> "serde", kind |-> "Normal",
     current_version |-> [op |-> "", v |-> <<1, 0, 0>>],
     latest_version |-> [op |-> "", v |-> latest],
     package_name |-> "app", workspace_path |-> NoPath]

\* C6 as stated: with the registry's latest at 1.2.0 the pipeline yields
\* exactly one outdated record, serde, Normal, current 1.0.0, latest 1.2.0.
C6_SerdeOutdatedAt120 ==
    (SerdeScenario(<<1, 2, 0>>) /\ Returned) => Result = <<SerdeRecord(<<1, 2, 0>>)>>

\* C6 as amended: with the registry's latest at 2.0.0 the pipeline yields
\* exactly one outdated record, serde, Normal, current 1.0.0, latest 2.0.0;
\* with the latest at 1.2.0, which the bare requirement 1.0.0 admits, it
\* yields none.
C6_SerdeOutdatedAt200 ==
    /\ (SerdeScenario(<<2, 0, 0>>) /\ Returned) => Result = <<SerdeRecord(<<2, 0, 0>>)>>
    /\ (SerdeScenario(<<1, 2, 0>>) /\ Returned) => Result = << >>

W6_SerdeOutdatedAt200 ==
    SerdeScenario(<<2, 0, 0>>) /\ Returned /\ Len(Result) = 1

\* C7: the list a call of retrieve_outdated_dependencies returns is sorted:
\* of two adjacent records the first has the smaller kind (Normal < Dev <
\* Build < Workspace), or the same kind and a name not greater.
IsSorted(deps) ==
    \A i \in 1..(Len(deps) - 1) :
        \/ KindRank(deps[i].kind) < KindRank(deps[i + 1].kind)
        \/ /\ deps[i].kind = deps[i + 1].kind
           /\ NameRank(deps[i].name) <= NameRank(deps[i + 1].name)

C7_ResultSorted ==
    \A p \in Paths : call[p] = "returned" => IsSorted(ret[p].dependencies)

\* a member's record sorted before one of the root, which the joins had
\* put first
W7_ResultSorted ==
    /\ Returned
    /\ Len(Result) >= 2
    /\ Result[1].workspace_path # NoPath
    /\ Result[2].workspace_path = NoPath

\* C8: for fixed manifests, lockfile and registry answers the returned
\* list is the same sequence whatever order the members are iterated and
\* joined in.
C8_ResultDeterministic ==
    Returned =>
        \A o \in Orders(WorkspaceMembers(RootPath)) :
            Result = JoinedResult(RootPath, threads[RootPath], ret, o).dependencies

\* C9: every record's member path ("." for the root) is a key of the
\* document mapping, in what retrieve_outdated_dependencies returns and in
\* what filter_selected_dependencies returns for the selection made.
KeysPresent(deps) ==
    \A i \in 1..Len(deps.dependencies) :
        PathKey(deps.dependencies[i].workspace_path) \in DOMAIN deps.cargo_toml_files

C9_MemberPathIsKey ==
    /\ \A p \in Paths : call[p] = "returned" => KeysPresent(ret[p])
    /\ KeysPresent(selected_deps)

\* a proper part of the records was selected, a member's record among them
W9_MemberPathIsKey ==
    /\ Len(selected_deps.dependencies) >= 1
    /\ Len(selected_deps.dependencies) < Len(Result)
    /\ \E i \in 1..Len(selected_deps.dependencies) :
          selected_deps.dependencies[i].workspace_path # NoPath

\* C10: when a non-empty selection is applied, no document is written more
\* than once, none is written that owns no selected record, a written file
\* holds its own document and an unwritten one what it held at startup;
\* and once apply_versions has returned Ok, every document owning a
\* selected record has been written exactly once.
Owners ==
    {PathKey(selected_deps.dependencies[i].workspace_path) :
        i \in 1..Len(selected_deps.dependencies)}

C10_WrittenOnceIffSelected ==
    /\ \A p \in Paths : writes[p] <= 1
    /\ \A p \in Paths : writes[p] >= 1 => p \in Owners
    /\ \A p \in DOMAIN disk :
          disk[p] = IF writes[p] = 0 THEN manifests[p]
                    ELSE selected_deps.cargo_toml_files[p]
    /\ outcome = "updated" => \A p \in Owners : writes[p] = 1

\* member a's document was written, the root's and member b's were not
W10_WrittenOnceIffSelected ==
    /\ outcome = "updated"
    /\ DOMAIN manifests = Paths
    /\ writes["a"] = 1
    /\ writes["b"] = 0
    /\ writes[RootPath] = 0

\* apply_versions has gone past the in-memory update of the documents
Applied == pc = "write" \/ outcome \in {"updated", "write error"}

\* the selected record, if any, for the entry `name` of section `kind` of
\* the document at `path`
Targets(d, path, kind, name) ==
    /\ PathKey(d.workspace_path) = path
    /\ d.kind = kind
    /\ d.name = name

Targeted(path, kind, name) ==
    \E i \in 1..Len(selected_deps.dependencies) :
        Targets(selected_deps.dependencies[i], path, kind, name)

RecordFor(path, kind, name) ==
    selected_deps.dependencies[
        CHOOSE i \in 1..Len(selected_deps.dependencies) :
            Targets(selected_deps.dependencies[i], path, kind, name)]

\* the entry as the claim says it is after the record d was applied: the
\* latest version string, "=" before it on --pin, in place of the version;
\* name, shape and package as before
Updated(entry, d) ==
    [name |-> entry.name,
     shape |-> entry.shape,
     package |-> entry.package,
     version |-> [op |-> IF args["pin"] THEN "=" ELSE d.latest_version.op,
                  v |-> d.latest_version.v]]

\* C11: after a selection was applied, each document of a selected record
\* differs from the one read at startup only in the entries that a selected
\* record names (same path, kind and name): such an entry, bare string or
\* table, has the record's latest version (with "=" on pin) as its version
\* and its shape and package rename as before; every other entry and every
\* other part of the document is as before, and a file that was not
\* written holds what it held at startup.
C11_OnlyTargetedVersionChanges ==
    Applied =>
        /\ \A p \in DOMAIN selected_deps.cargo_toml_files :
              LET before == manifests[p]
                  after == selected_deps.cargo_toml_files[p]
              IN  /\ after.package_name = before.package_name
                  /\ after.members = before.members
                  /\ after.items = before.items
                  /\ \A k \in Kinds :
                        /\ Len(after.sections[k]) = Len(before.sections[k])
                        /\ \A i \in 1..Len(before.sections[k]) :
                              after.sections[k][i] =
                                 IF Targeted(p, k, before.sections[k][i].name)
                                 THEN Updated(before.sections[k][i],
                                              RecordFor(p, k, before.sections[k][i].name))
                                 ELSE before.sections[k][i]
        /\ \A p \in DOMAIN disk : writes[p] = 0 => disk[p] = manifests[p]

\* with --pin, a renamed table entry of the root's [dependencies] got
\* "=2.0.0" and kept its package, next to an entry that was not selected
W11_OnlyTargetedVersionChanges ==
    /\ outcome = "updated"
    /\ args["pin"]
    /\ Len(disk[RootPath].sections["Normal"]) = 2
    /\ \E i, j \in 1..2 :
          /\ manifests[RootPath].sections["Normal"][i].shape \in {"inline", "table"}
          /\ manifests[RootPath].sections["Normal"][i].package # NoPackage
          /\ disk[RootPath].sections["Normal"][i].package
                = manifests[RootPath].sections["Normal"][i].package
          /\ disk[RootPath].sections["Normal"][i].version
                = [op |-> "=", v |-> <<2, 0, 0>>]
          /\ j # i
          /\ disk[RootPath].sections["Normal"][j]
                = manifests[RootPath].sections["Normal"][j]
          /\ Extractable(manifests[RootPath].sections["Normal"][j])

\* apply_versions was called on the selection made
ApplyCalled ==
    pc = "write" \/ outcome \in {"nothing updated", "updated", "write error"}

NothingSelected == \A i \in 1..Len(state.selected) : ~state.selected[i]

\* C12: when apply_versions is called with no record selected, it returns
\* at once and reports that nothing was updated: no document in memory
\* differs from the one read, no file was written or differs from what it
\* held at startup, and cargo check was not run.
C12_EmptySelectionIsNoOp ==
    (ApplyCalled /\ NothingSelected) =>
        /\ pc = "exit"
        /\ outcome = "nothing updated"
        /\ Len(selected_deps.dependencies) = 0
        /\ \A p \in DOMAIN state.outdated_deps.cargo_toml_files :
              state.outdated_deps.cargo_toml_files[p] = manifests[p]
        /\ \A p \in DOMAIN selected_deps.cargo_toml_files :
              selected_deps.cargo_toml_files[p] = manifests[p]
        /\ disk = manifests
        /\ \A p \in Paths : writes[p] = 0
        /\ pending = {}
        /\ checks = 0

\* two outdated records, none selected when the selection was applied
W12_EmptySelectionIsNoOp ==
    /\ outcome = "nothing updated"
    /\ Len(state.selected) = 2
    /\ NothingSelected

\* --no-check was given
NoCheck == "no_check" \in DOMAIN args /\ args["no_check"]

\* C13: cargo check runs at most once, and only when every document of the
\* selection has been written with success and --no-check was not given:
\* it has not run while apply_versions is still writing, nor in a run that
\* ended in a failed write, nor in a run with --no-check.
C13_CheckOnlyAfterAllWrites ==
    /\ checks <= 1
    /\ checks = 1 =>
          /\ outcome = "updated"
          /\ pending = {}
          /\ \A p \in Owners : writes[p] = 1 /\ disk[p] = selected_deps.cargo_toml_files[p]
          /\ ~NoCheck
    /\ pc = "write" => checks = 0
    /\ outcome = "write error" => checks = 0
    /\ NoCheck => checks = 0

\* cargo check has run after the documents of the root and of a member
\* were written
W13_CheckOnlyAfterAllWrites ==
    /\ checks = 1
    /\ writes[RootPath] = 1
    /\ \E p \in MemberPaths : writes[p] = 1

\* C14: when a write of apply_versions fails, apply_versions returns the
\* error with a document left unwritten, and every file written before the
\* failure holds its updated document, not what it held at startup.
C14_NoRollbackOnWriteError ==
    outcome = "write error" =>
        /\ pc = "exit"
        /\ pending # {}
        /\ \A p \in Paths :
              writes[p] >= 1 =>
                 /\ disk[p] = selected_deps.cargo_toml_files[p]
                 /\ disk[p] # manifests[p]

\* the second of two writes failed
W14_NoRollbackOnWriteError ==
    /\ outcome = "write error"
    /\ \E p \in Paths : writes[p] = 1 /\ disk[p] # manifests[p]

\* the entries of the lockfile that the requirement of the root's first
\* [dependencies] entry, serde, accepts
Satisfying ==
    {j \in 1..Len(lockfile) :
        /\ lockfile[j].name = "serde"
        /\ ReqMatches(VersionReqParse(DeclaredReq), lockfile[j].version)}

\* C15: for a name-sorted lockfile, the name serde and a requirement:
\* wherever the binary search anchors, find_matching_package returns an
\* entry named serde whose version satisfies the requirement when there is
\* one, and panics when there is none (no entry named serde, or none of
\* them satisfying); gathering ends in a panic exactly in the second case
\* and otherwise records the version of a satisfying entry.
C15_ResolverFindsSatisfying ==
    /\ \A a \in BinarySearchAnchors(lockfile, "serde") :
          LET i == FindMatchingPackage(lockfile, "serde",
                                       VersionReqParse(DeclaredReq), a)
          IN  IF Satisfying = {} THEN i = 0 ELSE i \in Satisfying
    /\ pc # "gather" =>
          IF Satisfying = {} THEN outcome = "panic"
          ELSE /\ outcome # "panic"
               /\ \E j \in Satisfying :
                     cargo[RootPath].dependencies[1].version
                        = VersionToString(lockfile[j].version)

\* three entries named serde, of which only the first satisfies: found by
\* the backward scan when the search anchors at the second or the third
W15_ResolverFindsSatisfying ==
    /\ pc # "gather"
    /\ outcome # "panic"
    /\ Len(lockfile) = 3
    /\ \A j \in 1..3 : lockfile[j].name = "serde"
    /\ Satisfying = {1}

\* the shapes C16 names: a bare string, or an inline or nested table with a
\* string version field
NamedShape(entry) ==
    \/ entry.shape = "string"
    \/ entry.shape = "inline" /\ entry.version # NoVersion
    \/ entry.shape = "table" /\ entry.version # NoVersion

\* name and kind of the entries of section k of the manifest at p that have
\* such a shape, in the order of the section
NamedEntries(p, k) ==
    LET entries == SelectSeq(manifests[p].sections[k], NamedShape)
    IN  [i \in 1..Len(entries) |-> [name |-> entries[i].name, kind |-> k]]

NameAndKind(deps) ==
    [i \in 1..Len(deps) |-> [name |-> deps[i].name, kind |-> deps[i].kind]]

\* the crate an entry is looked up as has no entry in the lockfile
Unlocked(entry) ==
    \A j \in 1..Len(lockfile) :
        lockfile[j].name # LookupName(entry.name, PackageOf(entry))

\* C16: for each manifest gathered, the declared dependencies are, section
\* by section (normal, dev, build, workspace), one per entry that is a bare
\* string or an inline or nested table with a string version, tagged with
\* the section's kind and carrying a version locked for its crate; a
\* section that is missing or not a table yields none; and gathering
\* panics only over an entry of such a shape (here: one whose crate is not
\* locked), never over an entry of another shape or over a section.
C16_ExtractsNamedShapesOnly ==
    pc # "gather" =>
        IF outcome = "panic"
        THEN \E p \in DOMAIN manifests : \E k \in Kinds :
                \E i \in 1..Len(manifests[p].sections[k]) :
                    /\ NamedShape(manifests[p].sections[k][i])
                    /\ Unlocked(manifests[p].sections[k][i])
        ELSE \A p \in DOMAIN cargo :
                /\ NameAndKind(cargo[p].dependencies)
                     = NamedEntries(p, "Normal") \o NamedEntries(p, "Dev")
                       \o NamedEntries(p, "Build") \o NamedEntries(p, "Workspace")
                /\ \A i \in 1..Len(cargo[p].dependencies) :
                      \E j \in 1..Len(lockfile) :
                          /\ lockfile[j].name
                                = LookupName(cargo[p].dependencies[i].name,
                                             cargo[p].dependencies[i].package)
                          /\ cargo[p].dependencies[i].version
                                = VersionToString(lockfile[j].version)
                /\ \A k \in Kinds :
                      manifests[p].items[k] # "table" =>
                          \A i \in 1..Len(cargo[p].dependencies) :
                              cargo[p].dependencies[i].kind # k

\* of the two entries of the root's [dependencies], one was taken and the
\* other, a table without a version or a value of another type, passed
\* over; the sections without entries are values that are not tables
W16_ExtractsNamedShapesOnly ==
    /\ pc # "gather"
    /\ outcome # "panic"
    /\ Len(manifests[RootPath].sections["Normal"]) = 2
    /\ Len(cargo[RootPath].dependencies) = 1
    /\ manifests[RootPath].items["Build"] = "value"

\* the crate an entry stands for: the package it names, else its key
RenameTarget(entry) ==
    IF entry.shape \in {"inline", "table"} /\ entry.package # NoPackage
    THEN entry.package
    ELSE entry.name

Locked(name) == \E j \in 1..Len(lockfile) : lockfile[j].name = name
LockedVersion(name) ==
    lockfile[CHOOSE j \in 1..Len(lockfile) : lockfile[j].name = name].version

\* the entry of the manifest that a record was built from
EntryOf(d) ==
    LET section == manifests[PathKey(d.workspace_path)].sections[d.kind]
    IN  section[CHOOSE i \in 1..Len(section) : section[i].name = d.name]

\* the entries with the key `name` in section `kind` of a document
Keyed(doc, kind, name) ==
    SelectSeq(doc.sections[kind], LAMBDA e : e.name = name)

\* C17: the lockfile is searched for the rename target of an entry (its
\* package, or its key when it names none): gathering panics exactly when
\* the target of some extracted entry is not locked. Every outdated record
\* carries the key of its entry as its name, the locked version of the
\* target as its current version and the registry's latest version of the
\* target as its latest version. And applying a record updates the entry
\* with the record's name as key, not the entry whose key is the target.
C17_RenameTargetForLookups ==
    /\ pc # "gather" =>
          (outcome = "panic" <=>
              \E p \in DOMAIN manifests : \E k \in Kinds :
                  \E i \in 1..Len(manifests[p].sections[k]) :
                      /\ NamedShape(manifests[p].sections[k][i])
                      /\ ~Locked(RenameTarget(manifests[p].sections[k][i])))
    /\ Returned =>
          \A i \in 1..Len(Result) :
              /\ Keyed(manifests[PathKey(Result[i].workspace_path)],
                       Result[i].kind, Result[i].name) # << >>
              /\ Result[i].current_version
                    = VersionToString(LockedVersion(RenameTarget(EntryOf(Result[i]))))
              /\ Result[i].latest_version
                    = VersionToString(registry[RenameTarget(EntryOf(Result[i]))].v)
    /\ Applied =>
          \A p \in DOMAIN selected_deps.cargo_toml_files : \A k \in Kinds :
              \A n \in NameSet :
                  Keyed(selected_deps.cargo_toml_files[p], k, n)
                     = IF Targeted(p, k, n)
                       THEN <<Updated(EntryOf(RecordFor(p, k, n)), RecordFor(p, k, n))>>
                       ELSE Keyed(manifests[p], k, n)

\* base64 = { version = "1.0.0", package = "serde" } next to serde = ..
\* in the root's [dependencies]: the record named base64 was applied, with
\* the latest version of serde, which is not that of base64, and the
\* entry serde is as it was
W17_RenameTargetForLookups ==
    /\ outcome = "updated"
    /\ Len(manifests[RootPath].sections["Normal"]) = 2
    /\ manifests[RootPath].sections["Normal"][1].package = "serde"
    /\ registry["serde"] # registry["base64"]
    /\ Targeted(RootPath, "Normal", "base64")
    /\ ~Targeted(RootPath, "Normal", "serde")
    /\ disk[RootPath].sections["Normal"][1].version.v = registry["serde"].v
    /\ disk[RootPath].sections["Normal"][2]
          = manifests[RootPath].sections["Normal"][2]

\* the root's Cargo.toml was read and is TOML; likewise for a member
Readable(p) == p \in DOMAIN manifests /\ manifests[p].parses

\* the distinct strings other than "." in the array workspace.members of
\* the root's file
Listed ==
    IF RootPath \in DOMAIN manifests /\ manifests[RootPath].items["Members"] = "array"
    THEN {m \in MemberPaths :
             \E i \in 1..Len(manifests[RootPath].members) :
                 manifests[RootPath].members[i] = m}
    ELSE {}

\* C18: gathering yields one member for each distinct string other than
\* "." in the member list of the root, and none when the list is missing
\* or not an array; an element that is not a string or is "." never makes
\* it fail (it fails only over a file that cannot be loaded); a member
\* listed by a member only is never gathered, never retrieved, and has no
\* document in the result.
C18_MembersOfRootOnly ==
    /\ pc # "gather" =>
          (outcome = "panic" <=>
              \/ ~lock_found
              \/ RootPath \in DOMAIN manifests /\ ~manifests[RootPath].parses
              \/ \E m \in Listed : m \in DOMAIN manifests /\ ~manifests[m].parses)
    /\ (pc # "gather" /\ outcome # "panic") =>
          DOMAIN cargo = {RootPath} \cup Listed
    /\ \A m \in MemberPaths \ Listed :
          call[m] = "idle" /\ threads[m] = << >>
    /\ Returned => DOMAIN ret[RootPath].cargo_toml_files = {RootPath} \cup Listed

\* the root lists ".", and a twice or with an element that is not a string;
\* a lists b: a alone is a member of the result
W18_MembersOfRootOnly ==
    /\ Returned
    /\ Readable(RootPath)
    /\ Readable("a")
    /\ Len(manifests[RootPath].members) = MaxMembers
    /\ \E i \in 1..MaxMembers : manifests[RootPath].members[i] \notin MemberPaths
    /\ manifests["a"].members = <<"b">>
    /\ DOMAIN ret[RootPath].cargo_toml_files = {RootPath, "a"}

\* the entries of the manifest at p that declare a dependency, counted in
\* the file (none in a file that is missing)
Declared(p) ==
    IF p \notin DOMAIN manifests THEN 0
    ELSE Len(SelectSeq(manifests[p].sections["Normal"], NamedShape))
         + Len(SelectSeq(manifests[p].sections["Dev"], NamedShape))
         + Len(SelectSeq(manifests[p].sections["Build"], NamedShape))
         + Len(SelectSeq(manifests[p].sections["Workspace"], NamedShape))

RECURSIVE SumDeclared(_)
SumDeclared(S) ==
    IF S = {} THEN 0
    ELSE LET m == CHOOSE x \in S : TRUE IN Declared(m) + SumDeclared(S \ {m})

\* C19: the total count main takes from CargoDependencies::len is the
\* number of dependencies the root declares plus, for each member of the
\* root, the number that member declares; it is 0 when none of these
\* manifests declares any.
C19_TotalIsRootPlusMembers ==
    (pc # "gather" /\ outcome # "panic") =>
        /\ total_deps = Declared(RootPath) + SumDeclared(Listed)
        /\ (\A p \in {RootPath} \cup Listed : Declared(p) = 0) => total_deps = 0

\* the root and its members a and b declare one dependency each
W19_TotalIsRootPlusMembers ==
    /\ pc # "gather"
    /\ outcome # "panic"
    /\ Listed = {"a", "b"}
    /\ total_deps = 3

\* a Cargo.toml that main is to read (the root's, or that of a member the
\* root lists) or the lockfile is missing or does not parse
Unreadable ==
    \/ ~lock_found
    \/ ~Readable(RootPath)
    \/ \E m \in Listed : ~Readable(m)

\* C20: in a run in which the root manifest, the manifest of a member or
\* the lockfile is missing or does not parse, gathering ends the run with a
\* panic, and no thread is ever spawned for a registry fetch.
C20_UnreadableIsFatal ==
    Unreadable =>
        /\ pc # "gather" => outcome = "panic"
        /\ \A p \in Paths : threads[p] = << >>

\* ------------------------------------------------ one fetch per dependency
\* a call that has spawned its threads
Spawned(p) == call[p] \in {"join", "returned"}

\* what one step may do to the thread t: nothing, take a slot, or fetch
\* and end; a thread that has fetched never fetches again
FetchesOnce(t) ==
    LET before == threads[t[1]][t[2]].pc
        after == threads'[t[1]][t[2]].pc
    IN  \/ after = before
        \/ before = "wait" /\ after = "fetch"
        \/ before = "fetch" /\ after \in {"done", "panicked"}

\* C21: in one run each declared dependency of each manifest gets exactly
\* one fetch-and-compare thread, and a thread fetches at most once: it goes
\* from waiting to fetching to ended and a fetch that failed or succeeded
\* is never issued again.
C21_OneFetchPerDependency ==
    /\ [](\A p \in Paths :
             Len(threads[p]) = IF Spawned(p) THEN Len(cargo[p].dependencies) ELSE 0)
    /\ [][\A t \in Live : FetchesOnce(t)]_vars

\* the root's call has returned with a thread whose fetch failed and a
\* thread whose fetch succeeded, each ended for good
W21_OneFetchPerDependency ==
    /\ Returned
    /\ \E t \in Live : ThreadAt(t).pc = "panicked"
    /\ \E t \in Live : ThreadAt(t).pc = "done"

\* ------------------------------------------------------------ idempotence
\* C22: after a first run in which every outdated record was selected and
\* applied, a second run against the same registry answers completes (it
\* does not panic) and its outdated list is empty.
C22_SecondRunIsUpToDate ==
    run = 2 => /\ outcome # "panic"
               /\ Returned => Len(Result) = 0

\* ------------------------------------------------- loads of a manifest
\* C23: during one run the Cargo.toml of the root and of each member path
\* is loaded at most once, however the member list is written.
C23_LoadedAtMostOnce == \A p \in Paths : loads[p] <= 1

\* ------------------------------------------- the current version carried
\* C24: the declared dependency gathered for a manifest entry, and the
\* outdated record built from it, carry as their current version the
\* requirement string exactly as the entry has it written, not the version
\* the lockfile holds.
C24_CurrentIsRequirementAsWritten ==
    /\ RootPath \in DOMAIN cargo =>
          \A i \in 1..Len(cargo[RootPath].dependencies) :
             cargo[RootPath].dependencies[i].version = DeclaredReq
    /\ Returned =>
          \A i \in 1..Len(Result) : Result[i].current_version = DeclaredReq

\* --------------------------------------------------- the empty body
\* the metadata object with no "crate" and no "versions"
EmptyObject == JObject(<< >>)

\* C25: for the empty metadata object from_value returns a snapshot, not
\* absence: its latest version is the version passed in, and repository,
\* description and both dates are absent.
C25_EmptyObjectGivesSnapshot ==
    (api.pc = "returned" /\ api.value = EmptyObject) =>
        api.returned = Some([repository |-> None,
                             description |-> None,
                             latest_version_date |-> None,
                             current_version_date |-> None,
                             latest_version |-> api.version])

\* ------------------------------------------------ the dates of a snapshot
\* the records of the body's "versions" array
Records ==
    IF "versions" \in DOMAIN api.value.fields
       /\ api.value.fields["versions"].type = "array"
    THEN api.value.fields["versions"].items ELSE << >>

HasString(record, key) ==
    key \in DOMAIN record.fields /\ record.fields[key].type = "string"

\* the records that have a num and whose num is `target`
WithNum(target) ==
    {i \in 1..Len(Records) :
        HasString(Records[i], "num") /\ Records[i].fields["num"].str = target}

\* the records whose num is `target`, one without a num counting as one
\* whose num is the empty string
WithNumOrNone(target) ==
    {i \in 1..Len(Records) :
        IF HasString(Records[i], "num")
        THEN Records[i].fields["num"].str = target
        ELSE target = << >>}

\* the updated_at, blanks around it removed, of the first of the records
\* `found`; absent when there is none or it has no updated_at string
UpdatedAt(found) ==
    IF found = {} THEN None
    ELSE IF ~HasString(Records[Min(found)], "updated_at") THEN None
    ELSE Some(Trim(Records[Min(found)].fields["updated_at"].str))

Snapshot == api.returned.val
Stripped(version) == TrimStartMatches(version, {"=", "^"})

\* C26 as stated: in a snapshot the latest-version date is the updated_at
\* of the record whose num equals the latest version, the current-version
\* date that of the record whose num equals the current version without
\* its leading '=' and '^'; a date is absent when there is no such record
\* or it has no updated_at, and a record without a num never matches.
C26_DatesOfRecordsWithNum ==
    (api.pc = "returned" /\ api.returned # None) =>
        /\ Snapshot.latest_version_date = UpdatedAt(WithNum(Snapshot.latest_version))
        /\ Snapshot.current_version_date = UpdatedAt(WithNum(Stripped(api.version)))

\* C26, amended: each date is the updated_at of the first record whose num
\* equals the version without its leading '=' and '^' (the latest version
\* is stripped the same way), where a record without a num string counts
\* as one whose num is the empty string: it matches an empty version and
\* no other.
C26_DatesByNum ==
    (api.pc = "returned" /\ api.returned # None) =>
        /\ Snapshot.latest_version_date =
              UpdatedAt(WithNumOrNone(Stripped(Snapshot.latest_version)))
        /\ Snapshot.current_version_date =
              UpdatedAt(WithNumOrNone(Stripped(api.version)))

\* a snapshot with both dates, for a current version written with a
\* comparator, from a body that also holds a record without a num
W26_DatesByNum ==
    /\ api.pc = "returned" /\ api.returned # None
    /\ Head(api.version) \in {"=", "^"}
    /\ Snapshot.latest_version_date # None
    /\ Snapshot.current_version_date # None
    /\ Snapshot.latest_version_date # Snapshot.current_version_date
    /\ \E i \in 1..Len(Records) : ~HasString(Records[i], "num")

\* ------------------------------------------------------------- quitting
\* C27: when the user quits the selection UI, after whatever navigation
\* and selection keys, the program ends with every manifest on disk as it
\* was read, nothing applied or written, and no cargo check run.
C27_QuitChangesNothing ==
    outcome = "quit" =>
        /\ pc = "exit"
        /\ disk = manifests
        /\ \A p \in Paths : writes[p] = 0
        /\ selected_deps = NoDependencies
        /\ pending = {}
        /\ checks = 0

\* the user moved the cursor, selected one of two records and quit
W27_QuitChangesNothing ==
    /\ outcome = "quit"
    /\ state.cursor_location # 0
    /\ \E i \in 1..Len(state.selected) : state.selected[i]
    /\ \E i \in 1..Len(state.selected) : ~state.selected[i]

\* ------------------------------------------------- 'a' and then Enter
\* the manifest entry that the record d was built from, in `files`
EntryNamed(files, d) ==
    LET section == files[PathKey(d.workspace_path)].sections[d.kind]
    IN  section[CHOOSE i \in 1..Len(section) : section[i].name = d.name]

\* the UI started with nothing selected and left with everything selected
SelectedAllInUi ==
    /\ ~args["all"]
    /\ ~args["yes"]
    /\ \A i \in 1..Len(state.selected) : state.selected[i]

\* C28: from the default state with nothing selected, 'a' and then Enter
\* applies every outdated record: afterwards the manifest entry of each
\* outdated dependency, in the root manifest and in every member manifest
\* that owns one, has a version different from the one it had before the
\* run.
C28_SelectAllThenEnterUpdatesAll ==
    (outcome = "updated" /\ SelectedAllInUi) =>
        \A i \in 1..NumOutdated :
            LET d == state.outdated_deps.dependencies[i]
            IN  EntryNamed(disk, d).version # EntryNamed(manifests, d).version

\* ------------------------------------------- tables without a version
\* the entries of the manifests read that are tables without a version
\* field, as <<path, kind, index>>
Versionless ==
    {x \in (DOMAIN manifests) \X Kinds \X (1..Len(CrateNames)) :
        /\ x[3] <= Len(manifests[x[1]].sections[x[2]])
        /\ manifests[x[1]].sections[x[2]][x[3]].shape \in {"inline", "table"}
        /\ manifests[x[1]].sections[x[2]][x[3]].version = NoVersion}

\* C29: a dependency entry written as a table without a version field is
\* never extracted as a declared dependency, and applying any selection,
\* the full one included, leaves it as it was, in memory and on disk.
C29_VersionlessTableUntouched ==
    \A x \in Versionless :
        LET p == x[1]
            entry == manifests[p].sections[x[2]][x[3]]
        IN  /\ p \in DOMAIN cargo =>
                  \A i \in 1..Len(cargo[p].dependencies) :
                      ~(/\ cargo[p].dependencies[i].kind = x[2]
                        /\ cargo[p].dependencies[i].name = entry.name)
            /\ disk[p].sections[x[2]][x[3]] = entry
            /\ p \in DOMAIN selected_deps.cargo_toml_files =>
                  selected_deps.cargo_toml_files[p].sections[x[2]][x[3]] = entry

\* every record was applied and written, and a table without a version
\* sits in a section in which another entry was updated
W29_VersionlessTableUntouched ==
    /\ outcome = "updated"
    /\ \A i \in 1..Len(state.selected) : state.selected[i]
    /\ \E x \in Versionless :
          /\ writes[x[1]] = 1
          /\ disk[x[1]].sections[x[2]] # manifests[x[1]].sections[x[2]]

\* ---------------------------------------- mutation after the fetches
\* a fetch thread or a call of retrieve_outdated_dependencies is running
FetchRunning ==
    \/ \E t \in Live : ~Ended(ThreadAt(t))
    \/ \E p \in Paths : call[p] \in {"start", "join"}

\* a document was mutated in memory or written, or the writer is at work
MutationBegun ==
    \/ disk # manifests
    \/ \E p \in Paths : writes[p] # 0
    \/ selected_deps # NoDependencies
    \/ pending # {}
    \/ pc \in {"apply", "write"}

\* C30: no manifest document is mutated or written while a fetch task is
\* running: once retrieve_outdated_dependencies has returned to main, every
\* fetch thread and every member call it started has ended, and the writer
\* acts only after that return.
C30_NoMutationWhileFetching ==
    /\ FetchRunning => ~MutationBegun
    /\ pc \in {"retrieved", "ui", "apply", "write"} => Returned /\ ~FetchRunning
    /\ MutationBegun => Returned

\* documents were written after the threads of the root and of a member
\* had all ended, one of them by a panic
W30_NoMutationWhileFetching ==
    /\ \E p \in Paths : writes[p] # 0
    /\ threads[RootPath] # << >>
    /\ \E p \in MemberPaths : threads[p] # << >>
    /\ \E t \in Live : ThreadAt(t).pc = "panicked"

\* --------------------------------------- which satisfying entry is taken
\* the entry the claim names for the anchor a: the anchor when it
\* satisfies, else the nearest satisfying entry after it, else the nearest
\* before it
NearestSatisfying(a) ==
    IF a \in Satisfying THEN a
    ELSE IF \E j \in Satisfying : j > a THEN Min({j \in Satisfying : j > a})
    ELSE Max({j \in Satisfying : j < a})

\* C31: when entries named serde satisfy the requirement, the resolver
\* returns the binary-search anchor if it satisfies, otherwise the nearest
\* satisfying entry after the anchor in the run of same-named entries, and
\* the nearest satisfying entry before the anchor only when none after it
\* satisfies; the version gathered is the version of that entry for one of
\* the anchors the search may return.
C31_AnchorThenForwardThenBackward ==
    Satisfying # {} =>
        /\ \A a \in BinarySearchAnchors(lockfile, "serde") :
              FindMatchingPackage(lockfile, "serde",
                                  VersionReqParse(DeclaredReq), a)
                 = NearestSatisfying(a)
        /\ pc # "gather" =>
              \E a \in BinarySearchAnchors(lockfile, "serde") :
                  cargo[RootPath].dependencies[1].version
                     = VersionToString(lockfile[NearestSatisfying(a)].version)

\* three entries named serde, the middle one not satisfying and the two
\* around it satisfying with different versions: anchored in the middle
\* the resolver took the one after it
W31_AnchorThenForwardThenBackward ==
    /\ pc # "gather"
    /\ Len(lockfile) = 3
    /\ \A j \in 1..3 : lockfile[j].name = "serde"
    /\ Satisfying = {1, 3}
    /\ lockfile[1].version # lockfile[3].version
    /\ outcome # "panic"
    /\ cargo[RootPath].dependencies[1].version = VersionToString(lockfile[3].version)

\* --------------------------------------------------------- termination
\* the thread t is in the loop that waits for a slot
Waiting(t) == t \in Live /\ ThreadAt(t).pc = "wait"

\* C32: under fair scheduling, with every fetch returning or failing,
\* every thread waiting for a slot eventually gets one and the root's
\* retrieve_outdated_dependencies eventually returns, for any number of
\* declared dependencies and any number of failing fetches.
C32_EveryCallReturns ==
    /\ <>[](\A t \in ThreadIds : ~Waiting(t))
    /\ (pc = "retrieve") ~> Returned

\* ------------------------------------------------- strings that do not parse
\* the root's [dependencies] entries
RootNormal == manifests[RootPath].sections["Normal"]

\* some declared requirement is not a requirement; the registry's latest
\* version of some declared crate is not a version
InvalidRequirement ==
    \E i \in 1..Len(RootNormal) : ~VersionReqParseOk(RootNormal[i].version)
InvalidLatest ==
    \E i \in 1..Len(RootNormal) : registry[RootNormal[i].name].tag = "Garbled"

\* C33: when a dependency's requirement string or the registry's latest
\* version string is not syntactically valid, the resolver ends in a fatal
\* error: retrieve_outdated_dependencies never returns a list to main, and
\* the run never reports that everything is up to date.
C33_InvalidStringIsFatal ==
    (InvalidRequirement \/ InvalidLatest) =>
        /\ ~Returned
        /\ outcome # "up to date"

\* ------------------------------------------------------- the selection UI
Cursor == state.cursor_location
UiList == state.outdated_deps.dependencies

\* C34: with n >= 1 records the cursor is always in 0..n-1; Up from 0
\* goes to n-1 and otherwise one back, Down from n-1 goes to 0 and
\* otherwise one on; Space, a, i, Enter, quit and any other key leave the
\* cursor where it is.
C34_CursorInRangeAndMoves ==
    /\ [](pc = "ui" => Len(UiList) >= 1 /\ Cursor \in 0..(Len(UiList) - 1))
    /\ [][KeyUp => Cursor' = IF Cursor = 0 THEN Len(UiList) - 1
                             ELSE Cursor - 1]_vars
    /\ [][KeyDown => Cursor' = IF Cursor = Len(UiList) - 1 THEN 0
                               ELSE Cursor + 1]_vars
    /\ [][(KeyLeft \/ KeyRight) => Cursor' \in 0..(Len(UiList) - 1)]_vars
    /\ [][(KeySpace \/ KeyA \/ KeyI \/ KeyOther \/ KeyEnter \/ KeyQuit)
            => Cursor' = Cursor]_vars

\* four records, the cursor on the last one with the second selected: Up
\* was pressed at index 0, or Down three times
W34_CursorInRangeAndMoves ==
    /\ pc = "ui"
    /\ Len(UiList) = 4
    /\ Cursor = 3
    /\ state.selected = <<FALSE, TRUE, FALSE, FALSE>>

\* the positions of the list whose boolean is true, the k-th of them in
\* increasing order, and the records at those positions in that order
Ticked == {i \in 1..Len(UiList) : state.selected[i]}
NthTicked(k) == CHOOSE i \in Ticked : Cardinality({j \in Ticked : j < i}) = k - 1
TickedInOrder == [k \in 1..Cardinality(Ticked) |-> UiList[NthTicked(k)]]

\* C35: the selection always holds one boolean per outdated record; Space
\* flips the entry under the cursor and no other, i flips every entry, a
\* selects every entry unless all are selected and then clears them all,
\* the navigation keys leave the selection as it is; Enter hands the
\* state over as it is and the records the writer gets are those whose
\* boolean is true, in list order.
C35_SelectionFollowsKeys ==
    /\ [](pc = "ui" =>
            /\ Len(state.selected) = Len(UiList)
            /\ \A i \in 1..Len(UiList) : state.selected[i] \in BOOLEAN)
    /\ [][KeySpace =>
            \A i \in 1..Len(UiList) :
                state'.selected[i] = IF i = Cursor + 1 THEN ~state.selected[i]
                                     ELSE state.selected[i]]_vars
    /\ [][KeyI => \A i \in 1..Len(UiList) :
                     state'.selected[i] = ~state.selected[i]]_vars
    /\ [][KeyA =>
            IF \A i \in 1..Len(UiList) : state.selected[i]
            THEN \A i \in 1..Len(UiList) : ~state'.selected[i]
            ELSE \A i \in 1..Len(UiList) : state'.selected[i]]_vars
    /\ [][(KeyUp \/ KeyDown \/ KeyLeft \/ KeyRight \/ KeyOther)
            => state'.selected = state.selected]_vars
    /\ [][KeyEnter => pc' = "apply" /\ state' = state]_vars
    /\ [][ApplyVersions => selected_deps'.dependencies = TickedInOrder]_vars

\* three records of which the first and the third were selected in the UI
\* and handed to the writer
W35_SelectionFollowsKeys ==
    /\ pc = "write"
    /\ ~args["yes"]
    /\ state.selected = <<TRUE, FALSE, TRUE>>
    /\ selected_deps.dependencies = <<UiList[1], UiList[3]>>

\* ------------------------------------------------------ section navigation
\* the list is sorted by section kind; the kinds that have records, and the
\* 0-based index of the first record of a kind
SortedByKind ==
    \A i, j \in 1..Len(UiList) :
        i < j => KindRank(UiList[i].kind) <= KindRank(UiList[j].kind)
GroupKinds == {UiList[i].kind : i \in 1..Len(UiList)}
GroupStart(k) == Min({i \in 1..Len(UiList) : UiList[i].kind = k}) - 1

\* the group after / before the group of the record at index c, by the
\* order of the kinds, and where the section keys should take the cursor
KindsAfter(c) == {k \in GroupKinds : KindRank(k) > KindRank(UiList[c + 1].kind)}
KindsBefore(c) == {k \in GroupKinds : KindRank(k) < KindRank(UiList[c + 1].kind)}
KindOfRank(S, r) == CHOOSE k \in S : KindRank(k) = r
NextGroupStart(c) ==
    IF KindsAfter(c) # {}
    THEN GroupStart(KindOfRank(KindsAfter(c),
                               Min({KindRank(k) : k \in KindsAfter(c)})))
    ELSE IF Cardinality(GroupKinds) = 1 THEN c
    ELSE 0
PrevGroupStart(c) ==
    IF KindsBefore(c) # {}
    THEN GroupStart(KindOfRank(KindsBefore(c),
                               Max({KindRank(k) : k \in KindsBefore(c)})))
    ELSE IF Cardinality(GroupKinds) = 1 THEN c
    ELSE GroupStart(KindOfRank(GroupKinds,
                               Max({KindRank(k) : k \in GroupKinds})))

\* C36: on a list sorted by kind the next-section key takes the cursor to
\* the first record of the next kind group, from the last group to index
\* 0; the previous-section key takes it to the first record of the group
\* before, from the first group to the first record of the last group;
\* with one group alone the cursor stays where it is.
C36_SectionKeysJumpToGroupStart ==
    /\ [](pc = "ui" /\ SortedByKind =>
            \A c \in 0..(Len(UiList) - 1) :
                /\ NextSectionLocation(UiList, c) = NextGroupStart(c)
                /\ PrevSectionLocation(UiList, c) = PrevGroupStart(c))
    /\ [][KeyRight /\ SortedByKind => Cursor' = NextGroupStart(Cursor)]_vars
    /\ [][KeyLeft /\ SortedByKind => Cursor' = PrevGroupStart(Cursor)]_vars

\* a sorted list of a group of two, a group of one and a group of one, the
\* cursor on the last record with nothing selected: the previous-section
\* key was pressed in the first group
W36_SectionKeysJumpToGroupStart ==
    /\ pc = "ui"
    /\ SortedByKind
    /\ Len(UiList) = 4
    /\ UiList[1].kind = UiList[2].kind
    /\ Cardinality(GroupKinds) = 3
    /\ Cursor = 3
    /\ PrevGroupStart(1) = 3
    /\ NextGroupStart(3) = 0
    /\ \A i \in 1..4 : ~state.selected[i]
====
